---- MODULE Spec2Model ----
(***************************************************************************)
(* Model of the action-queue push module                                   *)
(* (src/src/controllers/action-queue/push.js): the effect -> trigger       *)
(* conversion, the call-stack id builder, the push event assembler and the *)
(* push server client; and of the deep link actions                        *)
(* (src/src/actions/DeepLinkingActions.ts).                                *)
(*                                                                         *)
(* JavaScript values are represented as follows.  Strings are TLA+ strings *)
(* and template literals are built with \o.  An object is a record.  The   *)
(* values null and undefined, where an object is expected, are the records *)
(* null and undefined; an absent optional scalar field is the string       *)
(* NoValue.  A call that may throw yields [threw, value, error].                *)
(***************************************************************************)
EXTENDS Integers, Sequences, FiniteSets, TLC

VARIABLES
  loaded,         \* the wallet ids whose wallet the account has loaded
  resolved,       \* the same wallet ids, in the order in which they loaded
  effectArg,      \* the effect handed to getCallStackId and to the converter
  callStackIdCall,\* the call of getCallStackId(effect)
  triggerCall,    \* the call of actionEffectToPushTrigger(account, effect)
  walletLookups,  \* wallet ids that call passed to waitForCurrencyWallet
  canTriggerCall, \* the call of effectCanBeATrigger(account, effect)
  program,        \* prepareNewPushEvents: the program
  initEffect,     \* prepareNewPushEvents: the program's current effect
  dryrunOutputs,  \* prepareNewPushEvents: the dry-run outputs
  steps,          \* the async callback of each output (dryrunOutputs.map)
  completed,      \* the indexes of the fulfilled callbacks, in completion order
  pushEvents,     \* the promise prepareNewPushEvents returned
  eventIds,       \* checkPushEvents: the requested event ids
  response,       \* the push server's response to the request
  requests,       \* the number of requests fetch has sent
  isEffective,    \* the promise checkPushEvents returned
  uploaded,       \* the promise uploadPushEvents returned
  errorLog,       \* what uploadPushEvents wrote with console.error
  activeWalletIds,       \* state.core.account.activeWalletIds
  currencyWallets,       \* state.core.account.currencyWallets: the loaded wallets
  username,              \* state.core.account.username
  byId,                  \* state.ui.wallets.byId: the wallets the GUI lists
  selectedWalletId,      \* state.ui.wallets.selectedWalletId
  accountReferralLoaded, \* state.account.accountReferralLoaded
  DEV,                   \* global.__DEV__
  pendingDeepLink,       \* state.pendingDeepLink
  lastCall,              \* the last call of launchDeepLink or retryPendingDeepLink
  loggedIn,              \* state.core.account.loggedIn
  loginScene,            \* LoginScene: its React state and what its effect dispatched
  fioWallet,             \* FioCreateHandleScene: wallet
  domainStr,             \* FioCreateHandleScene: domainStr
  fioHandle,             \* FioCreateHandleScene: fioHandle
  errorText,             \* FioCreateHandleScene: errorText
  mounted,               \* FioCreateHandleScene: mounted.current
  register,              \* the call of handleRegisterPress
  buyAddressRequests,    \* the addresses posted to the buy-address endpoint
  navigation             \* FioCreateHandleScene: the calls of navigation

effectVars == <<effectArg, callStackIdCall, triggerCall, walletLookups, canTriggerCall>>
prepareVars == <<program, initEffect, dryrunOutputs, steps, completed, pushEvents>>
clientVars == <<eventIds, response, requests, isEffective, uploaded, errorLog>>
walletVars == <<loaded, resolved>>
linkVars == <<activeWalletIds, currencyWallets, username, byId, selectedWalletId,
              accountReferralLoaded, DEV, pendingDeepLink, lastCall>>
pushVars == <<walletVars, effectVars, prepareVars, clientVars>>
sceneVars == <<loggedIn, loginScene>>
fioVars == <<fioWallet, domainStr, fioHandle, errorText, mounted, register, buyAddressRequests,
             navigation>>
uiVars == <<sceneVars, fioVars>>
vars == <<pushVars, linkVars, uiVars>>

(***************************************************************************)
(* Bounds of the model.                                                    *)
(***************************************************************************)
MaxOpIndex == 1
MaxPar == 2
MaxOutputs == 2
MaxTxs == 1
MaxBroadcastOutputs == 1
MaxBroadcastTxs == 2
MaxCompletionOutputs == 2
MaxEventIds == 2
MaxCounter == 2
MaxInput == 3
MaxStatuses == 2

(***************************************************************************)
(* JavaScript values.                                                      *)
(***************************************************************************)
null == [type |-> "null"]
undefined == [type |-> "undefined"]
NoValue == "undefined"

\* The outcome of a synchronous call: the returned string, or the message of
\* the Error it threw.
Return(v) == [threw |-> FALSE, value |-> v, error |-> ""]
Throw(message) == [threw |-> TRUE, value |-> "", error |-> message]

SeqsUpTo(S, n) == UNION {[1..k -> S] : k \in 0..n}

(***************************************************************************)
(* The account: waitForCurrencyWallet(walletId) resolves, once the wallet  *)
(* is loaded, with a wallet that exposes its plugin id.                    *)
(***************************************************************************)
WalletIds == {"w1", "w2"}

PluginOf(walletId) == IF walletId = "w1" THEN "bitcoin" ELSE "ethereum"

account ==
  [walletId \in WalletIds |->
     [currencyInfo |-> [pluginId |-> PluginOf(walletId)],
      currencyConfig |-> [currencyInfo |-> [pluginId |-> PluginOf(walletId)]]]]

waitForCurrencyWallet(acct, walletId) == acct[walletId]

(***************************************************************************)
(* ActionEffect: the tagged union read by push.js.                         *)
(***************************************************************************)
AddressBalanceEffects ==
  [type : {"address-balance"}, address : {"addrA", "addrB"}, walletId : WalletIds,
   tokenId : {NoValue, "usdc"}, aboveAmount : {NoValue, "100"},
   belowAmount : {NoValue, "5"}]

PriceLevelEffects ==
  [type : {"price-level"}, currencyPair : {"BTC_USD", "ETH_USD"},
   aboveRate : {NoValue, "30000"}, belowRate : {NoValue, "20000"}]

TxConfsEffects ==
  [type : {"tx-confs"}, walletId : WalletIds, txId : {"t1", "t2"},
   confirmations : {1, 2}]

PlainEffects == {[type |-> t] : t \in {"done", "noop", "push-events", "unixtime"}}

LeafEffects == AddressBalanceEffects \cup PriceLevelEffects \cup TxConfsEffects \cup PlainEffects

SeqEffects(children) ==
  [type : {"seq"}, opIndex : 0..MaxOpIndex, childEffect : children \cup {null}]

ParEffects(children) ==
  [type : {"par"}, childEffects : SeqsUpTo(children \cup {null}, MaxPar)]

Noop == [type |-> "noop"]
Done == [type |-> "done"]
TxConfs(w, t) == [type |-> "tx-confs", walletId |-> w, txId |-> t, confirmations |-> 1]
Par(children) == [type |-> "par", childEffects |-> children]

\* The effects a par of the model may hold: plain and waiting leaves, two
\* leaves that differ in one field only, seq wrappers and nested pars.
ChildEffects ==
  {Noop, Done, TxConfs("w1", "t1"), TxConfs("w1", "t2"),
   [type |-> "seq", opIndex |-> 0, childEffect |-> null],
   [type |-> "seq", opIndex |-> MaxOpIndex, childEffect |-> Noop],
   Par(<<>>), Par(<<null>>), Par(<<Noop>>), Par(<<Noop, Par(<<Noop>>)>>)}

\* An effect whose tag is none of the variants push.js names.
UnknownEffects == {[type |-> "loop"]}

Effects ==
  LeafEffects \cup SeqEffects(LeafEffects) \cup SeqEffects(SeqEffects(LeafEffects))
    \cup ParEffects(ChildEffects) \cup UnknownEffects

(***************************************************************************)
(* getCallStackId (push.js 232-253).                                       *)
(***************************************************************************)
NULL_EFFECT_CALLSTACK ==
  "Unexpected null effect while converting to CallStackId. "
    \o "This could be caused by a partial dryrun not properly short-circuiting."

NULL_EFFECT_TRIGGER ==
  "Unexpected null effect while converting to PushTrigger. "
    \o "This could be caused by a partial dryrun not properly short-circuiting."

RECURSIVE join(_, _)
\* Array.prototype.join: the elements separated by sep, "" for no element.
join(strings, sep) ==
  IF Len(strings) = 0 THEN ""
  ELSE IF Len(strings) = 1 THEN strings[1]
  ELSE strings[1] \o sep \o join(Tail(strings), sep)

\* A seq that names its child instead of its position.
seqCallStackIdOfChild(effect) ==
  "seq_" \o (IF effect.childEffect = null THEN "null" ELSE effect.childEffect.type)

\* A seq whose id also names what the seq waits for.
seqCallStackIdWithChild(effect) ==
  "seq_" \o ToString(effect.opIndex)
    \o (IF effect.childEffect = null THEN "" ELSE "_" \o effect.childEffect.type)

\* case 'seq' (push.js 237-240)
seqCallStackId(effect) == "seq_" \o ToString(effect.opIndex)

\* A par that joins its children's ids in one canonical order, whatever the
\* order of the children.
parCallStackIdCanonical(childCallStackIds) ==
  LET n == Len(childCallStackIds)
      orders == {p \in [1..n -> 1..n] : \A i, j \in 1..n : p[i] = p[j] => i = j}
      arranged == {[i \in 1..n |-> childCallStackIds[p[i]]] : p \in orders}
  IN "par_" \o join(CHOOSE ids \in arranged : TRUE, "_")

\* case 'par' (push.js 247-248)
parCallStackId(childCallStackIds) == "par_" \o join(childCallStackIds, "_")

RECURSIVE getCallStackId(_)
getCallStackId(effect) ==
  IF effect.type = "seq" THEN Return(seqCallStackId(effect))
  ELSE IF effect.type = "par" THEN
    LET children == effect.childEffects
        mapped == [i \in DOMAIN children |->
                     IF children[i] = null THEN Throw(NULL_EFFECT_CALLSTACK)
                     ELSE getCallStackId(children[i])]
    IN IF \E i \in DOMAIN mapped : mapped[i].threw
       THEN Throw(NULL_EFFECT_CALLSTACK)
       ELSE Return(parCallStackId([i \in DOMAIN mapped |-> mapped[i].value]))
  ELSE Return(effect.type)

(***************************************************************************)
(* actionEffectToPushTrigger (push.js 164-230).  The result also lists the *)
(* wallets the call waits for, in order.                                   *)
(***************************************************************************)
\* The outcome of the asynchronous conversion: the trigger (or undefined) it
\* resolves with or the message of the Error it rejects with, and the wallet
\* ids it passed to waitForCurrencyWallet.
Resolve(trigger, lookups) ==
  [threw |-> FALSE, value |-> trigger, error |-> "", lookups |-> lookups]

Reject(message, lookups) ==
  [threw |-> TRUE, value |-> undefined, error |-> message, lookups |-> lookups]

\* An address-balance trigger with its two thresholds exchanged.
addressBalanceTriggerSwapped(wallet, effect) ==
  [type |-> "address-balance", pluginId |-> wallet.currencyInfo.pluginId,
   tokenId |-> effect.tokenId, address |-> effect.address,
   aboveAmount |-> effect.belowAmount, belowAmount |-> effect.aboveAmount]

\* case 'address-balance' (push.js 173-185)
addressBalanceTrigger(wallet, effect) ==
  [type |-> "address-balance", pluginId |-> wallet.currencyInfo.pluginId,
   tokenId |-> effect.tokenId, address |-> effect.address,
   aboveAmount |-> effect.aboveAmount, belowAmount |-> effect.belowAmount]

\* case 'price-level' (push.js 186-194)
priceLevelTrigger(effect) ==
  [type |-> "price-level", currencyPair |-> effect.currencyPair,
   aboveRate |-> effect.aboveRate, belowRate |-> effect.belowRate]

\* case 'tx-confs' (push.js 195-206)
txConfsTrigger(wallet, effect) ==
  [type |-> "tx-confirm", pluginId |-> wallet.currencyInfo.pluginId,
   confirmations |-> effect.confirmations, txid |-> effect.txId]

\* A converter that refuses a par with a null child, as the seq case does.
notConvertibleUnlessNull(effect) ==
  IF effect.type = "par" /\ \E i \in DOMAIN effect.childEffects : effect.childEffects[i] = null
  THEN Reject(NULL_EFFECT_TRIGGER, <<>>)
  ELSE Resolve(undefined, <<>>)

\* cases 'done', 'noop', 'par', 'push-events', 'unixtime' (push.js 208-223)
notConvertible(effect) == Resolve(undefined, <<>>)

\* exhaustiveCheck: the error for a tag no case handles.
exhaustiveCheck(type) == "Unknown type: " \o type

\* default (push.js 225-228): throw exhaustiveCheck(effect.type)
defaultCase(effect) == Reject(exhaustiveCheck(effect.type), <<>>)

\* A seq case without its null check.
nullChildEffectUnchecked(effect) == FALSE

\* case 'seq' (push.js 170): effect.childEffect === null
nullChildEffect(effect) == effect.childEffect = null

RECURSIVE actionEffectToPushTrigger(_, _)
actionEffectToPushTrigger(acct, effect) ==
  IF effect.type = "seq" THEN
    IF nullChildEffect(effect) THEN Reject(NULL_EFFECT_TRIGGER, <<>>)
    ELSE actionEffectToPushTrigger(acct, effect.childEffect)
  ELSE IF effect.type = "address-balance" THEN
    Resolve(addressBalanceTrigger(waitForCurrencyWallet(acct, effect.walletId), effect),
            <<effect.walletId>>)
  ELSE IF effect.type = "price-level" THEN
    Resolve(priceLevelTrigger(effect), <<>>)
  ELSE IF effect.type = "tx-confs" THEN
    Resolve(txConfsTrigger(waitForCurrencyWallet(acct, effect.walletId), effect),
            <<effect.walletId>>)
  ELSE IF effect.type \in {"done", "noop", "par", "push-events", "unixtime"} THEN
    notConvertible(effect)
  ELSE defaultCase(effect)

(***************************************************************************)
(* A promise is pending, fulfilled with a value or rejected with the       *)
(* message of an Error; a synchronous call has returned or thrown.         *)
(***************************************************************************)
NotCalled == [state |-> "idle", error |-> ""]
Returned(v) == [state |-> "returned", value |-> v, error |-> ""]
Thrown(message) == [state |-> "thrown", error |-> message]
Pending == [state |-> "pending", error |-> ""]
Fulfilled(v) == [state |-> "fulfilled", value |-> v, error |-> ""]
Rejected(message) == [state |-> "rejected", error |-> message]

\* account.waitForCurrencyWallet resolves once the wallet has loaded.
WalletLoaded(walletId) ==
  /\ walletId \notin loaded
  /\ loaded' = loaded \cup {walletId}
  /\ resolved' = Append(resolved, walletId)
  /\ UNCHANGED <<effectVars, prepareVars, clientVars, linkVars, uiVars>>

Range(f) == {f[i] : i \in DOMAIN f}

\* No account is logged in and no deep link has arrived.
NoCall ==
  [op |-> "none", link |-> null, called |-> FALSE, handled |-> FALSE, effects |-> <<>>,
   actions |-> <<>>]

DeepLinkIdle ==
  /\ activeWalletIds = {}
  /\ currencyWallets = {}
  /\ username = NoValue
  /\ byId = {}
  /\ selectedWalletId = ""
  /\ accountReferralLoaded = FALSE
  /\ DEV = FALSE
  /\ pendingDeepLink = null
  /\ lastCall = NoCall

\* The login scene before its effect has seen a link.
NoLoginScene == [passwordRecoveryKey |-> NoValue, counter |-> 0, dispatched |-> <<>>]

LoginSceneIdle ==
  /\ loggedIn = FALSE
  /\ loginScene = NoLoginScene

\* The FIO handle scene is not open.
FioIdle ==
  /\ fioWallet = undefined
  /\ domainStr = <<>>
  /\ fioHandle = <<>>
  /\ errorText = undefined
  /\ mounted = TRUE
  /\ register = [pc |-> "idle"]
  /\ buyAddressRequests = <<>>
  /\ navigation = <<>>

(***************************************************************************)
(* Calls of getCallStackId and actionEffectToPushTrigger on one effectArg.    *)
(***************************************************************************)
EffectIdle ==
  /\ effectArg = null
  /\ callStackIdCall = NotCalled
  /\ triggerCall = NotCalled
  /\ walletLookups = <<>>
  /\ canTriggerCall = NotCalled

PrepareIdle ==
  /\ program = [programId |-> ""]
  /\ initEffect = null
  /\ dryrunOutputs = <<>>
  /\ steps = <<>>
  /\ completed = <<>>
  /\ pushEvents = NotCalled

ClientIdle ==
  /\ eventIds = <<>>
  /\ response = [ok |-> FALSE, status |-> 0, events |-> <<>>, body |-> ""]
  /\ requests = 0
  /\ isEffective = NotCalled
  /\ uploaded = NotCalled
  /\ errorLog = <<>>

InitEffect ==
  /\ loaded = {}
  /\ resolved = <<>>
  /\ effectArg \in Effects
  /\ callStackIdCall = NotCalled
  /\ triggerCall = NotCalled
  /\ walletLookups = <<>>
  /\ canTriggerCall = NotCalled
  /\ PrepareIdle
  /\ ClientIdle
  /\ DeepLinkIdle
  /\ LoginSceneIdle
  /\ FioIdle

CallGetCallStackId ==
  /\ callStackIdCall.state = "idle"
  /\ LET id == getCallStackId(effectArg)
     IN callStackIdCall' = IF id.threw THEN Thrown(id.error) ELSE Returned(id.value)
  /\ UNCHANGED <<walletVars, linkVars, uiVars, effectArg, triggerCall, walletLookups, canTriggerCall, prepareVars,
                 clientVars>>

\* The call runs up to its first await: it has issued its wallet lookups, or
\* it has settled when it needs none.
CallActionEffectToPushTrigger ==
  /\ triggerCall.state = "idle"
  /\ LET settled == actionEffectToPushTrigger(account, effectArg)
     IN /\ walletLookups' = settled.lookups
        /\ triggerCall' = IF settled.lookups # <<>> THEN Pending
                      ELSE IF settled.threw THEN Rejected(settled.error)
                      ELSE Fulfilled(settled.value)
  /\ UNCHANGED <<walletVars, linkVars, uiVars, effectArg, callStackIdCall, canTriggerCall, prepareVars, clientVars>>

\* The awaited wallet has loaded: the call resumes and settles.
ResumeActionEffectToPushTrigger ==
  /\ triggerCall.state = "pending"
  /\ Range(walletLookups) \subseteq loaded
  /\ LET settled == actionEffectToPushTrigger(account, effectArg)
     IN triggerCall' = IF settled.threw THEN Rejected(settled.error)
                   ELSE Fulfilled(settled.value)
  /\ UNCHANGED <<walletVars, linkVars, uiVars, effectArg, callStackIdCall, walletLookups, canTriggerCall, prepareVars,
                 clientVars>>

\* A pre-check that compares the trigger with null only: undefined passes.
canTriggerStrict(settled) == settled.value # null

\* push.js 124: (await actionEffectToPushTrigger(account, effect)) != null
canTrigger(settled) == settled.value # undefined /\ settled.value # null

\* What effectCanBeATrigger settles with once the converter has settled.
effectCanBeATrigger(acct, effect) ==
  LET settled == actionEffectToPushTrigger(acct, effect)
  IN IF settled.threw THEN Rejected(settled.error) ELSE Fulfilled(canTrigger(settled))

\* push.js 123-125: the call runs the converter up to its first await, or
\* settles when the converter needs no wallet.
CallEffectCanBeATrigger ==
  /\ canTriggerCall.state = "idle"
  /\ canTriggerCall' =
       IF actionEffectToPushTrigger(account, effectArg).lookups # <<>> THEN Pending
       ELSE effectCanBeATrigger(account, effectArg)
  /\ UNCHANGED <<walletVars, linkVars, uiVars, effectArg, callStackIdCall, triggerCall, walletLookups, prepareVars,
                 clientVars>>

\* The awaited wallet has loaded: the converter settles and so does the call.
ResumeEffectCanBeATrigger ==
  /\ canTriggerCall.state = "pending"
  /\ Range(actionEffectToPushTrigger(account, effectArg).lookups) \subseteq loaded
  /\ canTriggerCall' = effectCanBeATrigger(account, effectArg)
  /\ UNCHANGED <<walletVars, linkVars, uiVars, effectArg, callStackIdCall, triggerCall, walletLookups, prepareVars,
                 clientVars>>

NextEffect ==
  \/ CallGetCallStackId
  \/ CallActionEffectToPushTrigger
  \/ ResumeActionEffectToPushTrigger
  \/ CallEffectCanBeATrigger
  \/ ResumeEffectCanBeATrigger
  \/ \E walletId \in WalletIds : WalletLoaded(walletId)

SpecEffect == InitEffect /\ [][NextEffect]_vars

(***************************************************************************)
(* prepareNewPushEvents (push.js 37-89).  JavaScript arrays are indexed    *)
(* from 0: At(array, index) is array[index].                               *)
(***************************************************************************)
At(array, index) == array[index + 1]
Indexes(array) == 0..(Len(array) - 1)

ProgramIds == {"swap-1", "loan-2"}

HexDigits == <<"0", "1", "2", "3", "4", "5", "6", "7", "8", "9", "a", "b", "c", "d", "e", "f">>

\* asHex: the bytes of a signed transaction, two hex digits a byte.
asHex(bytes) ==
  join([i \in DOMAIN bytes |-> HexDigits[(bytes[i] \div 16) + 1] \o HexDigits[(bytes[i] % 16) + 1]], "")

\* The transactions a dry-run output may broadcast.
ExecutionTxs ==
  {[walletId |-> "w1", tx |-> [signedTx |-> <<171>>]],
   [walletId |-> "w2", tx |-> [signedTx |-> <<1, 35>>]]}

PriceLevel == [type |-> "price-level", currencyPair |-> "BTC_USD",
               aboveRate |-> "30000", belowRate |-> NoValue]

\* The effects of the dry-run outputs: convertible with and without a wallet
\* lookup, not convertible, and one whose id cannot be built.
OutputEffects ==
  {TxConfs("w1", "t1"),
   [type |-> "seq", opIndex |-> MaxOpIndex, childEffect |-> PriceLevel],
   Done,
   Par(<<null>>),
   Par(<<Noop, Par(<<Done, null>>)>>)}

\* The effects the program may be in when the events are prepared.
InitEffects ==
  OutputEffects \cup
    {[type |-> "address-balance", address |-> "addrA", walletId |-> "w2",
      tokenId |-> NoValue, aboveAmount |-> "100", belowAmount |-> NoValue],
     [type |-> "seq", opIndex |-> 0, childEffect |-> null]}

ExecutionOutputs == [effect : OutputEffects, broadcastTxs : SeqsUpTo(ExecutionTxs, MaxTxs)]

\* push.js 46-49
pushMessage == [title |-> "action_queue_push_notification_title",
                body |-> "action_queue_push_notification_body"]

\* The trigger source taken from the output itself.
prevEffectOwn(outputs, init, index) == At(outputs, index).effect

\* push.js 53
prevEffectOf(outputs, init, index) ==
  IF index > 0 THEN At(outputs, index - 1).effect ELSE init

\* The two parts of the event id exchanged.
eventIdSwapped(programId, callStackId) == callStackId \o ":" \o programId

\* push.js 56
eventIdOf(programId, callStackId) == programId \o ":" \o callStackId

\* The entries collected as the wallet lookups complete: in the order in
\* which the wallets loaded.
broadcastTxsByCompletion(acct, output) ==
  LET entry(executionTx) ==
        [pluginId |-> waitForCurrencyWallet(acct, executionTx.walletId)
                        .currencyConfig.currencyInfo.pluginId,
         rawTx |-> asHex(executionTx.tx.signedTx)]
      txsOf(walletId) == SelectSeq(output.broadcastTxs, LAMBDA t : t.walletId = walletId)
      byWallet == [i \in DOMAIN resolved |->
                     [j \in DOMAIN txsOf(resolved[i]) |-> entry(txsOf(resolved[i])[j])]]
  IN IF Len(byWallet) = 0 THEN <<>>
     ELSE IF Len(byWallet) = 1 THEN byWallet[1]
     ELSE byWallet[1] \o byWallet[2]

\* push.js 57-67, once the wallet of every transaction has loaded: the inner
\* Promise.all collects the entries by position.
broadcastTxsOf(acct, output) ==
  [i \in DOMAIN output.broadcastTxs |->
     LET executionTx == output.broadcastTxs[i]
         wallet == waitForCurrencyWallet(acct, executionTx.walletId)
     IN [pluginId |-> wallet.currencyConfig.currencyInfo.pluginId,
         rawTx |-> asHex(executionTx.tx.signedTx)]]

\* The push message attached to every event.
pushMessageAlways(index, length) == pushMessage

\* push.js 79
pushMessageOf(index, length) == IF index = length - 1 THEN pushMessage ELSE undefined

\* push.js 72
UnsupportedEffect(effect) ==
  "Unsupported effect type " \o effect.type \o " in conversion to PushTrigger"

\* The async callback of dryrunOutputs.map for one output.
StepRejected(message) ==
  [pc |-> "rejected", eventId |-> "", broadcastTxs |-> <<>>, event |-> undefined,
   error |-> message]

StepAwaiting(pc, eventId, broadcastTxs) ==
  [pc |-> pc, eventId |-> eventId, broadcastTxs |-> broadcastTxs, event |-> undefined,
   error |-> ""]

StepFulfilled(event) ==
  [pc |-> "fulfilled", eventId |-> event.eventId, broadcastTxs |-> event.broadcastTxs,
   event |-> event, error |-> ""]

\* A callback that goes on without an id when getCallStackId threw.
stepStartUnchecked(programId, outputs, index) ==
  StepAwaiting("broadcastTxs",
               eventIdOf(programId, getCallStackId(At(outputs, index).effect).value), <<>>)

\* push.js 53-58: the callback up to its first await
stepStart(programId, outputs, index) ==
  LET callStackId == getCallStackId(At(outputs, index).effect)
  IN IF callStackId.threw THEN StepRejected(callStackId.error)
     ELSE StepAwaiting("broadcastTxs", eventIdOf(programId, callStackId.value), <<>>)

\* A callback that lets a step without a trigger through instead of throwing.
stepFinishLenient(step, outputs, init, index, settled) ==
  IF settled.threw THEN StepRejected(settled.error)
  ELSE StepFulfilled([eventId |-> step.eventId,
                      broadcastTxs |-> step.broadcastTxs,
                      pushMessage |-> pushMessageOf(index, Len(outputs)),
                      recurring |-> FALSE,
                      trigger |-> settled.value])

\* push.js 68-84: the callback once the converter has settled
stepFinish(step, outputs, init, index, settled) ==
  IF settled.threw THEN StepRejected(settled.error)
  ELSE IF settled.value = undefined
    THEN StepRejected(UnsupportedEffect(prevEffectOf(outputs, init, index)))
  ELSE StepFulfilled([eventId |-> step.eventId,
                      broadcastTxs |-> step.broadcastTxs,
                      pushMessage |-> pushMessageOf(index, Len(outputs)),
                      recurring |-> FALSE,
                      trigger |-> settled.value])

\* The values collected in the order in which the promises were fulfilled.
promiseAllByCompletion(callbacks, completionOrder) ==
  [i \in DOMAIN callbacks |-> At(callbacks, completionOrder[i]).event]

\* Promise.all (push.js 51): the values by position, whatever the order in
\* which the promises were fulfilled.
promiseAll(callbacks, completionOrder) ==
  [i \in DOMAIN callbacks |-> callbacks[i].event]

\* Promise.all rejects with the first rejection, and is fulfilled once every
\* promise is.
settleAll(promise, callbacks, index, completionOrder) ==
  IF promise.state # "pending" THEN promise
  ELSE IF At(callbacks, index).pc = "rejected" THEN Rejected(At(callbacks, index).error)
  ELSE IF \A i \in DOMAIN callbacks : callbacks[i].pc = "fulfilled"
    THEN Fulfilled(promiseAll(callbacks, completionOrder))
  ELSE promise

InitPrepare ==
  /\ loaded = {}
  /\ resolved = <<>>
  /\ EffectIdle
  /\ ClientIdle
  /\ DeepLinkIdle
  /\ LoginSceneIdle
  /\ FioIdle
  /\ program \in [programId : ProgramIds]
  /\ initEffect \in InitEffects
  /\ dryrunOutputs \in SeqsUpTo(ExecutionOutputs, MaxOutputs)
  /\ steps = <<>>
  /\ completed = <<>>
  /\ pushEvents = NotCalled

\* The call runs every callback up to its first await.  A callback whose
\* getCallStackId threw is rejected before any other can be: the first of
\* them rejects the returned promise.
CallPrepareNewPushEvents ==
  /\ pushEvents.state = "idle"
  /\ LET started == [i \in DOMAIN dryrunOutputs |->
                       stepStart(program.programId, dryrunOutputs, i - 1)]
         thrown == {i \in DOMAIN started : started[i].pc = "rejected"}
     IN /\ steps' = started
        /\ pushEvents' =
             IF thrown # {}
             THEN Rejected(started[CHOOSE i \in thrown : \A j \in thrown : i <= j].error)
             ELSE IF Len(started) = 0 THEN Fulfilled(<<>>)
             ELSE Pending
  /\ UNCHANGED <<walletVars, linkVars, uiVars, effectVars, clientVars, program, initEffect, dryrunOutputs,
                 completed>>

\* A callback that calls the converter without awaiting the wallets of the
\* output's transactions.
StepBroadcastTxsUnawaited(index) ==
  /\ index \in Indexes(steps)
  /\ At(steps, index).pc = "broadcastTxs"
  /\ steps' = [steps EXCEPT ![index + 1] =
                  StepAwaiting("trigger", @.eventId,
                               broadcastTxsOf(account, At(dryrunOutputs, index)))]
  /\ UNCHANGED <<walletVars, linkVars, uiVars, effectVars, clientVars, program, initEffect,
                 dryrunOutputs, completed, pushEvents>>

\* push.js 57-68: the wallets of the output's transactions have loaded; the
\* callback resumes and calls actionEffectToPushTrigger on prevEffect.
StepBroadcastTxsResolved(index) ==
  /\ index \in Indexes(steps)
  /\ At(steps, index).pc = "broadcastTxs"
  /\ LET output == At(dryrunOutputs, index)
     IN /\ \A i \in DOMAIN output.broadcastTxs : output.broadcastTxs[i].walletId \in loaded
        /\ steps' = [steps EXCEPT ![index + 1] =
                        StepAwaiting("trigger", @.eventId, broadcastTxsOf(account, output))]
  /\ UNCHANGED <<walletVars, linkVars, uiVars, effectVars, clientVars, program, initEffect, dryrunOutputs,
                 completed, pushEvents>>

\* push.js 68-84: the converter has settled (the wallet it waits for, if any,
\* has loaded); the callback throws or returns its event.
StepTriggerSettled(index) ==
  /\ index \in Indexes(steps)
  /\ At(steps, index).pc = "trigger"
  /\ LET settled == actionEffectToPushTrigger(account, prevEffectOf(dryrunOutputs, initEffect, index))
         finished == [steps EXCEPT ![index + 1] =
                        stepFinish(@, dryrunOutputs, initEffect, index, settled)]
         order == IF At(finished, index).pc = "fulfilled" THEN Append(completed, index)
                  ELSE completed
     IN /\ Range(settled.lookups) \subseteq loaded
        /\ steps' = finished
        /\ completed' = order
        /\ pushEvents' = settleAll(pushEvents, finished, index, order)
  /\ UNCHANGED <<walletVars, linkVars, uiVars, effectVars, clientVars, program, initEffect, dryrunOutputs>>

NextPrepare ==
  \/ CallPrepareNewPushEvents
  \/ \E index \in 0..MaxOutputs : StepBroadcastTxsResolved(index)
  \/ \E index \in 0..MaxOutputs : StepTriggerSettled(index)
  \/ \E walletId \in WalletIds : WalletLoaded(walletId)

SpecPrepare == InitPrepare /\ [][NextPrepare]_vars

\* Every wallet the account holds loads in the end, and a callback whose
\* awaited promise has settled is resumed by the event loop.
FairPrepare ==
  /\ \A walletId \in WalletIds : WF_vars(WalletLoaded(walletId))
  /\ \A index \in 0..MaxOutputs :
       WF_vars(StepBroadcastTxsResolved(index)) /\ WF_vars(StepTriggerSettled(index))

\* prepareNewPushEvents on outputs whose effects can and cannot be converted
\* and whose id can and cannot be built.
CompletionEffects ==
  {TxConfs("w1", "t1"), TxConfs("w2", "t2"), Done, Par(<<null>>),
   [type |-> "seq", opIndex |-> 0, childEffect |-> PriceLevel]}

CompletionInitEffects ==
  {PriceLevel,
   Done,
   [type |-> "address-balance", address |-> "addrA", walletId |-> "w2",
    tokenId |-> NoValue, aboveAmount |-> "100", belowAmount |-> NoValue],
   [type |-> "seq", opIndex |-> 0, childEffect |-> null]}

CompletionOutputs ==
  [effect : CompletionEffects, broadcastTxs : SeqsUpTo(ExecutionTxs, MaxTxs)]

InitCompletion ==
  /\ loaded = {}
  /\ resolved = <<>>
  /\ EffectIdle
  /\ ClientIdle
  /\ DeepLinkIdle
  /\ LoginSceneIdle
  /\ FioIdle
  /\ program = [programId |-> "swap-1"]
  /\ initEffect \in CompletionInitEffects
  /\ dryrunOutputs \in SeqsUpTo(CompletionOutputs, MaxCompletionOutputs)
  /\ steps = <<>>
  /\ completed = <<>>
  /\ pushEvents = NotCalled

SpecCompletion == InitCompletion /\ [][NextPrepare]_vars /\ FairPrepare

\* prepareNewPushEvents on outputs that broadcast several transactions, from
\* wallets that load in either order.
BroadcastEffects == {TxConfs("w1", "t1"), Done}

BroadcastInitEffects == {PriceLevel, TxConfs("w1", "t1"), Done}

BroadcastOutputs ==
  [effect : BroadcastEffects, broadcastTxs : SeqsUpTo(ExecutionTxs, MaxBroadcastTxs)]

InitBroadcast ==
  /\ loaded = {}
  /\ resolved = <<>>
  /\ EffectIdle
  /\ ClientIdle
  /\ DeepLinkIdle
  /\ LoginSceneIdle
  /\ FioIdle
  /\ program \in [programId : ProgramIds]
  /\ initEffect \in BroadcastInitEffects
  /\ dryrunOutputs \in SeqsUpTo(BroadcastOutputs, MaxBroadcastOutputs)
  /\ steps = <<>>
  /\ completed = <<>>
  /\ pushEvents = NotCalled

SpecBroadcast == InitBroadcast /\ [][NextPrepare]_vars

(***************************************************************************)
(* checkPushEvents (push.js 91-121) against the push server.               *)
(***************************************************************************)
\* Event ids of the program's steps, and one that names a property every
\* JavaScript object inherits.
EventIds == {"swap-1:done", "swap-1:seq_0", "constructor"}

EventStates == {"pending", "triggered", "complete", "cancelled"}

EventStatuses == [eventId : EventIds, state : EventStates]

NoResponse == [ok |-> FALSE, status |-> 0, events |-> <<>>, body |-> ""]

\* The bodies of a failure: an error response, and text that is none.
ErrorBodies == {"{error: bad login}", "<html>Bad Gateway"}

\* What the server may answer: success with the login's events, or a failure
\* with a body.
Responses ==
  [ok : {TRUE}, status : {200}, events : SeqsUpTo(EventStatuses, MaxStatuses), body : {"{}"}]
    \cup [ok : {FALSE}, status : {400, 500}, events : {<<>>}, body : ErrorBodies]

\* push.js 108
RequestFailed(status) == "Request failed with " \o ToString(status)

RECURSIVE eventStatusMapOf(_)
\* push.js 113: reduce with { ...map, [eventStatus.eventId]: eventStatus }; a
\* later status of an id replaces an earlier one.
eventStatusMapOf(events) ==
  IF Len(events) = 0 THEN << >>
  ELSE LET map == eventStatusMapOf(SubSeq(events, 1, Len(events) - 1))
           eventStatus == events[Len(events)]
       IN [id \in DOMAIN map \cup {eventStatus.eventId} |->
             IF id = eventStatus.eventId THEN eventStatus ELSE map[id]]

\* push.js 116: eventStatusMap[eventId] on an object literal: own properties,
\* then those of Object.prototype (a function, without a state), else
\* undefined.
statusOf(eventStatusMap, eventId) ==
  IF eventId \in DOMAIN eventStatusMap THEN eventStatusMap[eventId]
  ELSE IF eventId = "constructor" THEN [eventId |-> NoValue, state |-> NoValue]
  ELSE undefined

\* A check that passes when any one of the requested events is effective.
isEffectiveSome(requested, eventStatusMap) ==
  \E i \in DOMAIN requested :
    LET status == statusOf(eventStatusMap, requested[i])
    IN status # undefined /\ status.state \in {"triggered", "complete"}

\* push.js 115-118
isEffectiveEvery(requested, eventStatusMap) ==
  \A i \in DOMAIN requested :
    LET status == statusOf(eventStatusMap, requested[i])
    IN status # undefined /\ status.state \in {"triggered", "complete"}

\* asErrorResponse: accepts the body of an error response, throws on any
\* other text.
asErrorResponse(raw) ==
  IF raw = "{error: bad login}" THEN Return("bad login")
  ELSE Throw("TypeError: Expected an error response")

\* asMaybe (push.js 148): undefined instead of the cleaner's error
asMaybe(cleaned) == IF cleaned.threw THEN NoValue ELSE cleaned.value

\* An error path that cleans the body without asMaybe: an unparseable body
\* throws before the transport error is raised.
uploadFailedStrict(answer) ==
  LET cleaned == asErrorResponse(answer.body)
  IN IF cleaned.threw THEN [logged |-> <<>>, error |-> cleaned.error]
     ELSE [logged |-> <<[responseBody |-> answer.body, responseData |-> cleaned.value]>>,
           error |-> RequestFailed(answer.status)]

\* push.js 146-161: what uploadPushEvents logs and throws on a response that
\* is not ok
uploadFailed(answer) ==
  [logged |-> <<[responseBody |-> answer.body,
                 responseData |-> asMaybe(asErrorResponse(answer.body))]>>,
   error |-> RequestFailed(answer.status)]

InitClient ==
  /\ loaded = {}
  /\ resolved = <<>>
  /\ EffectIdle
  /\ PrepareIdle
  /\ DeepLinkIdle
  /\ LoginSceneIdle
  /\ FioIdle
  /\ eventIds \in SeqsUpTo(EventIds, MaxEventIds)
  /\ response = NoResponse
  /\ requests = 0
  /\ isEffective = NotCalled
  /\ uploaded = NotCalled
  /\ errorLog = <<>>

\* push.js 91-105: the call sends its request and awaits the response.
CallCheckPushEvents ==
  /\ isEffective.state = "idle"
  /\ uploaded.state = "idle"
  /\ requests' = requests + 1
  /\ isEffective' = Pending
  /\ UNCHANGED <<walletVars, linkVars, uiVars, effectVars, prepareVars, eventIds, response, uploaded, errorLog>>

\* The push server answers the request.
ServerResponds(answer) ==
  /\ requests > 0
  /\ response = NoResponse
  /\ response' = answer
  /\ UNCHANGED <<walletVars, linkVars, uiVars, effectVars, prepareVars, eventIds, requests, isEffective,
                 uploaded, errorLog>>

\* A client that sends its request again when the response is not ok.
CheckPushEventsRetry ==
  /\ isEffective.state = "pending"
  /\ response # NoResponse
  /\ IF ~response.ok
     THEN /\ requests' = requests + 1
          /\ response' = NoResponse
          /\ UNCHANGED isEffective
     ELSE /\ isEffective' =
               Fulfilled(isEffectiveEvery(eventIds, eventStatusMapOf(response.events)))
          /\ UNCHANGED <<requests, response>>
  /\ UNCHANGED <<walletVars, linkVars, uiVars, effectVars, prepareVars, eventIds, uploaded, errorLog>>

\* push.js 107-120: the call resumes with the response.
CheckPushEventsResume ==
  /\ isEffective.state = "pending"
  /\ response # NoResponse
  /\ isEffective' =
       IF ~response.ok THEN Rejected(RequestFailed(response.status))
       ELSE Fulfilled(isEffectiveEvery(eventIds, eventStatusMapOf(response.events)))
  /\ UNCHANGED <<walletVars, linkVars, uiVars, effectVars, prepareVars, eventIds, response, requests,
                 uploaded, errorLog>>

\* push.js 127-144: uploadPushEvents sends its request and awaits the
\* response.
CallUploadPushEvents ==
  /\ uploaded.state = "idle"
  /\ isEffective.state = "idle"
  /\ requests' = requests + 1
  /\ uploaded' = Pending
  /\ UNCHANGED <<walletVars, linkVars, uiVars, effectVars, prepareVars, eventIds, response, isEffective, errorLog>>

\* push.js 146-162: uploadPushEvents resumes with the response.
UploadPushEventsResume ==
  /\ uploaded.state = "pending"
  /\ response # NoResponse
  /\ IF response.ok
     THEN /\ uploaded' = Fulfilled(undefined)
          /\ UNCHANGED errorLog
     ELSE LET failed == uploadFailed(response)
          IN /\ errorLog' = errorLog \o failed.logged
             /\ uploaded' = Rejected(failed.error)
  /\ UNCHANGED <<walletVars, linkVars, uiVars, effectVars, prepareVars, eventIds, response, requests, isEffective>>

NextClient ==
  \/ CallCheckPushEvents
  \/ \E answer \in Responses : ServerResponds(answer)
  \/ CheckPushEventsResume
  \/ CallUploadPushEvents
  \/ UploadPushEventsResume

SpecClient == InitClient /\ [][NextClient]_vars

(***************************************************************************)
(* Deep links (DeepLinkingActions.ts).  launchDeepLink and                 *)
(* retryPendingDeepLink are synchronous thunks: each is one step.  What    *)
(* handleLink does besides returning is recorded as a sequence of effects. *)
(***************************************************************************)
CurrencyCodeOf(walletId) == IF walletId = "w1" THEN "BTC" ELSE "ETH"

\* The plugins of guiPlugins.
guiPlugins == {"moonpay", "custom"}

\* DeepLinkingActions.ts 199-206
CURRENCY_NAMES ==
  [bitcoin |-> "BTC", bitcoincash |-> "BCH", ethereum |-> "ETH", litecoin |-> "LTC",
   dash |-> "DASH", rsk |-> "RBTC"]

\* DeepLinkingActions.ts 208-225
convertCurrencyStringFromCurrencyCode(code) ==
  CASE code = "BTC" -> "Bitcoin"
    [] code = "BCH" -> "Bitcoin Cash"
    [] code = "ETH" -> "Ethereum"
    [] code = "LTC" -> "Litecoin"
    [] code = "DASH" -> "Dash"
    [] code = "RBTC" -> "RSK"
    [] OTHER -> code

\* The links the app may receive.
DeepLinks ==
  {[type |-> "edgeLogin", lobbyId |-> "lobby-1"],
   [type |-> "passwordRecovery", passwordRecoveryKey |-> "key-1"],
   [type |-> "promotion", installerId |-> "promo-1"],
   [type |-> "promotion", installerId |-> NoValue],
   [type |-> "requestAddress", uri |-> "edge://reqaddr"],
   [type |-> "swap"],
   [type |-> "azteco", uri |-> "https://azte.co/?c1="],
   [type |-> "bitPay", uri |-> "https://bitpay.com/i/1"],
   [type |-> "price-change", pluginId |-> "bitcoin"],
   [type |-> "dev", sceneName |-> "settingsOverview"]}
    \cup [type : {"plugin"}, pluginId : {"custom", "moonpay", "nosuch"}, path : {"/buy"},
          query : {"a=1"}]
    \cup [type : {"walletConnect"}, uri : {"wc:1"}, isSigning : BOOLEAN]
    \cup [type : {"other"}, protocol : {"bitcoin", "litecoin", "dogecoin"},
          uri : {"pay:addr"}]

\* getState(): the parts of the Redux state the thunks read.
getState ==
  [core |-> [account |-> [activeWalletIds |-> activeWalletIds,
                          currencyWallets |-> currencyWallets,
                          username |-> username]],
   ui |-> [wallets |-> [byId |-> byId, selectedWalletId |-> selectedWalletId]],
   account |-> [accountReferralLoaded |-> accountReferralLoaded],
   pendingDeepLink |-> pendingDeepLink]

\* What handleLink does besides returning.
Dispatch(what, arg) == [kind |-> "dispatch", what |-> what, arg |-> arg]
ActionsPush(sceneName) == [kind |-> "Actions.push", what |-> sceneName, arg |-> ""]
ShowError(message) == [kind |-> "showError", what |-> message, arg |-> ""]
Launch(what, arg) == [kind |-> "call", what |-> what, arg |-> arg]
SetTimeoutPush(sceneName, arg) == [kind |-> "setTimeout", what |-> sceneName, arg |-> arg]

\* A return value of handleLink with the effects performed before it.
Handled(effects) == [handled |-> TRUE, effects |-> effects]
NotHandled(effects) == [handled |-> FALSE, effects |-> effects]

\* A check that never waits for the wallets.
walletsLoadingNever(state) == FALSE

\* DeepLinkingActions.ts 63
walletsLoading(state) ==
  Cardinality(state.core.account.activeWalletIds)
    # Cardinality(state.core.account.currencyWallets)

\* DeepLinkingActions.ts 66
noAccount(state) == state.core.account.username = NoValue

\* DeepLinkingActions.ts 60
hasCurrentWallet(state) == state.ui.wallets.selectedWalletId \in state.ui.wallets.byId

\* DeepLinkingActions.ts 78-91
handlePlugin(state, link) ==
  IF link.pluginId = "custom" \/ link.pluginId \notin guiPlugins
  THEN Handled(<<ShowError("No plugin named " \o link.pluginId \o " exists")>>)
  ELSE Handled(<<ActionsPush("pluginView")>>)

\* DeepLinkingActions.ts 111-121
handleAzteco(state, link) ==
  IF ~hasCurrentWallet(state) THEN NotHandled(<<>>)
  ELSE IF CurrencyCodeOf(state.ui.wallets.selectedWalletId) # "BTC"
    THEN NotHandled(<<ActionsPush("walletListScene"), ShowError("azteco_btc_only")>>)
  ELSE Handled(<<Launch("launchAzteco", link.uri)>>)

\* DeepLinkingActions.ts 142-172
handleOther(state, link) ==
  IF ~hasCurrentWallet(state) THEN NotHandled(<<>>)
  ELSE IF link.protocol \notin DOMAIN CURRENCY_NAMES
    THEN Handled(<<Dispatch("parseScannedUri", link.uri)>>)
  ELSE LET currencyCode == CURRENCY_NAMES[link.protocol]
           walletIds == state.ui.wallets.byId
           matching == {walletId \in walletIds : CurrencyCodeOf(walletId) = currencyCode}
       IN IF matching # {}
          THEN Handled(<<Dispatch("selectWallet", CHOOSE walletId \in matching : TRUE),
                         Dispatch("parseScannedUri", link.uri)>>)
          ELSE IF Cardinality(walletIds) # Cardinality(state.core.account.activeWalletIds)
            THEN NotHandled(<<>>)
          ELSE Handled(<<ShowError("alert_deep_link_no_wallet "
                                     \o convertCurrencyStringFromCurrencyCode(currencyCode))>>)

\* DeepLinkingActions.ts 68-183: the switch on link.type
handleLinkOfType(state, link) ==
  CASE link.type = "edgeLogin" ->
         Handled(<<Dispatch("loginWithEdge", link.lobbyId), ActionsPush("edgeLogin")>>)
    [] link.type = "passwordRecovery" -> NotHandled(<<>>)
    [] link.type = "plugin" -> handlePlugin(state, link)
    [] link.type = "promotion" ->
         IF ~state.account.accountReferralLoaded THEN NotHandled(<<>>)
         ELSE Handled(<<Dispatch("activatePromotion",
                                 IF link.installerId = NoValue THEN "" ELSE link.installerId)>>)
    [] link.type = "requestAddress" -> Handled(<<Launch("doRequestAddress", link.uri)>>)
    [] link.type = "swap" ->
         IF ~hasCurrentWallet(state) THEN NotHandled(<<>>)
         ELSE Handled(<<ActionsPush("exchangeScene")>>)
    [] link.type = "azteco" -> handleAzteco(state, link)
    [] link.type = "walletConnect" ->
         IF ~hasCurrentWallet(state) THEN NotHandled(<<>>)
         ELSE IF ~link.isSigning
           THEN Handled(<<ActionsPush("wcConnections"), SetTimeoutPush("wcConnect", link.uri)>>)
         ELSE Handled(<<ActionsPush("wcConnections")>>)
    [] link.type = "bitPay" -> Handled(<<Launch("launchBitPay", link.uri)>>)
    [] link.type = "price-change" ->
         Handled(<<Dispatch("launchPriceChangeBuySellSwapModal", link.pluginId)>>)
    [] link.type = "other" -> handleOther(state, link)
    [] link.type = "dev" ->
         IF ~DEV THEN NotHandled(<<>>) ELSE Handled(<<ActionsPush(link.sceneName)>>)
    [] OTHER -> NotHandled(<<>>)

\* DeepLinkingActions.ts 57-184
handleLink(state, link) ==
  IF walletsLoading(state) THEN NotHandled(<<>>)
  ELSE IF noAccount(state) THEN NotHandled(<<>>)
  ELSE handleLinkOfType(state, link)

\* The actions the two thunks dispatch themselves.
DEEP_LINK_RECEIVED(link) == [type |-> "DEEP_LINK_RECEIVED", data |-> link]
DEEP_LINK_HANDLED == [type |-> "DEEP_LINK_HANDLED", data |-> null]

\* The reducer of state.pendingDeepLink: DEEP_LINK_RECEIVED saves the link
\* for later, DEEP_LINK_HANDLED clears it.
pendingDeepLinkReducer(pending, action) ==
  IF action.type = "DEEP_LINK_RECEIVED" THEN action.data
  ELSE IF action.type = "DEEP_LINK_HANDLED" THEN null
  ELSE pending

\* The store's pendingDeepLink after the actions a thunk dispatched.
afterDispatch(pending, actions) ==
  IF Len(actions) = 0 THEN pending ELSE pendingDeepLinkReducer(pending, actions[1])

\* A launch that saves the link whether it was followed or not.
launchDeepLinkAlwaysSaves(state, link) ==
  LET result == handleLink(state, link)
  IN [op |-> "launchDeepLink", link |-> link, called |-> TRUE, handled |-> result.handled,
      effects |-> result.effects, actions |-> <<DEEP_LINK_RECEIVED(link)>>]

\* DeepLinkingActions.ts 21-32
launchDeepLink(state, link) ==
  LET result == handleLink(state, link)
  IN [op |-> "launchDeepLink", link |-> link, called |-> TRUE, handled |-> result.handled,
      effects |-> result.effects,
      actions |-> IF ~result.handled THEN <<DEEP_LINK_RECEIVED(link)>> ELSE <<>>]

\* A retry that clears the pending link whether it was followed or not.
retryPendingDeepLinkAlwaysClears(state) ==
  IF state.pendingDeepLink = null
  THEN [NoCall EXCEPT !.op = "retryPendingDeepLink"]
  ELSE LET result == handleLink(state, state.pendingDeepLink)
       IN [op |-> "retryPendingDeepLink", link |-> state.pendingDeepLink, called |-> TRUE,
           handled |-> result.handled, effects |-> result.effects,
           actions |-> <<DEEP_LINK_HANDLED>>]

\* DeepLinkingActions.ts 39-52
retryPendingDeepLink(state) ==
  IF state.pendingDeepLink = null
  THEN [NoCall EXCEPT !.op = "retryPendingDeepLink"]
  ELSE LET result == handleLink(state, state.pendingDeepLink)
       IN [op |-> "retryPendingDeepLink", link |-> state.pendingDeepLink, called |-> TRUE,
           handled |-> result.handled, effects |-> result.effects,
           actions |-> IF result.handled THEN <<DEEP_LINK_HANDLED>> ELSE <<>>]

\* The account the user is logged in to, or none, before any wallet loads.
InitDeepLink ==
  /\ loaded = {}
  /\ resolved = <<>>
  /\ EffectIdle
  /\ PrepareIdle
  /\ ClientIdle
  /\ activeWalletIds \in SUBSET WalletIds
  /\ currencyWallets = {}
  /\ username \in {NoValue, "edge-user"}
  /\ byId = {}
  /\ selectedWalletId \in {""} \cup WalletIds
  /\ accountReferralLoaded = FALSE
  /\ DEV \in BOOLEAN
  /\ pendingDeepLink = null
  /\ lastCall = NoCall
  /\ loggedIn \in BOOLEAN
  /\ username # NoValue => loggedIn
  /\ loginScene = NoLoginScene
  /\ FioIdle

\* The app receives a link.
LaunchDeepLink(link) ==
  /\ lastCall' = launchDeepLink(getState, link)
  /\ pendingDeepLink' = afterDispatch(pendingDeepLink, lastCall'.actions)
  /\ UNCHANGED <<pushVars, uiVars, activeWalletIds, currencyWallets, username, byId, selectedWalletId,
                 accountReferralLoaded, DEV>>

\* The deep linking manager retries as the wallet list changes.
RetryPendingDeepLink ==
  /\ lastCall' = retryPendingDeepLink(getState)
  /\ pendingDeepLink' = afterDispatch(pendingDeepLink, lastCall'.actions)
  /\ UNCHANGED <<pushVars, uiVars, activeWalletIds, currencyWallets, username, byId, selectedWalletId,
                 accountReferralLoaded, DEV>>

\* The core has loaded one more of the account's active wallets.
CurrencyWalletLoaded(walletId) ==
  /\ walletId \in activeWalletIds \ currencyWallets
  /\ currencyWallets' = currencyWallets \cup {walletId}
  /\ UNCHANGED <<pushVars, uiVars, activeWalletIds, username, byId, selectedWalletId,
                 accountReferralLoaded, DEV, pendingDeepLink, lastCall>>

\* The GUI has listed one more of the loaded wallets.
GuiWalletListed(walletId) ==
  /\ walletId \in currencyWallets \ byId
  /\ byId' = byId \cup {walletId}
  /\ UNCHANGED <<pushVars, uiVars, activeWalletIds, currencyWallets, username, selectedWalletId,
                 accountReferralLoaded, DEV, pendingDeepLink, lastCall>>

\* The account's referral information has loaded.
AccountReferralLoaded ==
  /\ ~accountReferralLoaded
  /\ accountReferralLoaded' = TRUE
  /\ UNCHANGED <<pushVars, uiVars, activeWalletIds, currencyWallets, username, byId, selectedWalletId,
                 DEV, pendingDeepLink, lastCall>>

\* LoginScene.tsx 108: dispatch(logoutRequest(navigation))
logoutRequest == [type |-> "logoutRequest", data |-> null]

\* The store's pendingDeepLink after a sequence of dispatched actions.
RECURSIVE dispatchAll(_, _)
dispatchAll(pending, actions) ==
  IF Len(actions) = 0 THEN pending
  ELSE dispatchAll(pendingDeepLinkReducer(pending, Head(actions)), Tail(actions))

\* An effect that clears the link without logging out.
loginSceneEffectNoLogout(isLoggedIn, pending, scene) ==
  IF pending # null /\ pending.type = "passwordRecovery"
  THEN [passwordRecoveryKey |-> pending.passwordRecoveryKey,
        counter |-> scene.counter + 1,
        dispatched |-> <<DEEP_LINK_HANDLED>>]
  ELSE scene

\* LoginScene.tsx 104-118: the effect on pendingDeepLink.  The scene's state
\* after the effect ran, with the actions it dispatched.
loginSceneEffect(isLoggedIn, pending, scene) ==
  IF pending # null /\ pending.type = "passwordRecovery"
  THEN [passwordRecoveryKey |-> pending.passwordRecoveryKey,
        counter |-> scene.counter + 1,
        dispatched |-> (IF isLoggedIn THEN <<logoutRequest>> ELSE <<>>)
                         \o <<DEEP_LINK_HANDLED>>]
  ELSE scene

\* LoginScene.tsx 205: recoveryLogin={passwordRecoveryKey}
recoveryLogin == loginScene.passwordRecoveryKey

\* The login scene renders and its effect runs.
LoginSceneEffect ==
  /\ loginScene.counter < MaxCounter
  /\ loginScene' = loginSceneEffect(loggedIn, pendingDeepLink, loginScene)
  /\ pendingDeepLink' =
       IF loginScene' = loginScene THEN pendingDeepLink
       ELSE dispatchAll(pendingDeepLink, loginScene'.dispatched)
  /\ UNCHANGED <<pushVars, fioVars, loggedIn, activeWalletIds, currencyWallets, username, byId,
                 selectedWalletId, accountReferralLoaded, DEV, lastCall>>

NextDeepLink ==
  \/ \E link \in DeepLinks : LaunchDeepLink(link)
  \/ RetryPendingDeepLink
  \/ LoginSceneEffect
  \/ \E walletId \in WalletIds : CurrencyWalletLoaded(walletId)
  \/ \E walletId \in WalletIds : GuiWalletListed(walletId)
  \/ AccountReferralLoaded

SpecDeepLink == InitDeepLink /\ [][NextDeepLink]_vars

(***************************************************************************)
(* The FIO handle scene (FioCreateHandleScene.tsx).  A string the scene    *)
(* edits is a sequence of characters.                                      *)
(***************************************************************************)
UpperCase ==
  <<"A", "B", "C", "D", "E", "F", "G", "H", "I", "J", "K", "L", "M", "N", "O", "P", "Q", "R",
    "S", "T", "U", "V", "W", "X", "Y", "Z">>

LowerCase ==
  <<"a", "b", "c", "d", "e", "f", "g", "h", "i", "j", "k", "l", "m", "n", "o", "p", "q", "r",
    "s", "t", "u", "v", "w", "x", "y", "z">>

Digits == {"0", "1", "2", "3", "4", "5", "6", "7", "8", "9"}

\* The characters the user may type.
InputChars == {"B", "-", "!"}

\* String.prototype.replace(pattern, '') with a string pattern: the first
\* occurrence is removed.
replaceFirst(str, pattern) ==
  LET starts == {i \in 1..(Len(str) - Len(pattern) + 1) :
                   SubSeq(str, i, i + Len(pattern) - 1) = pattern}
  IN IF starts = {} THEN str
     ELSE LET first == CHOOSE i \in starts : \A j \in starts : i <= j
          IN SubSeq(str, 1, first - 1) \o SubSeq(str, first + Len(pattern), Len(str))

\* String.prototype.trim
trim(str) ==
  LET inked == {i \in DOMAIN str : str[i] # " "}
  IN IF inked = {} THEN <<>>
     ELSE SubSeq(str, CHOOSE i \in inked : \A j \in inked : i <= j,
                 CHOOSE i \in inked : \A j \in inked : i >= j)

\* str.charAt(0), str.slice(1, -1) and str.slice(-1)
charAt0(str) == IF Len(str) = 0 THEN <<>> ELSE <<str[1]>>
sliceMiddle(str) == SubSeq(str, 2, Len(str) - 1)
sliceLast(str) == IF Len(str) = 0 THEN <<>> ELSE <<str[Len(str)]>>

\* String.prototype.toLowerCase on the characters of the model
toLowerCase(str) ==
  [i \in DOMAIN str |->
     IF \E k \in DOMAIN UpperCase : UpperCase[k] = str[i]
     THEN LowerCase[CHOOSE k \in DOMAIN UpperCase : UpperCase[k] = str[i]]
     ELSE str[i]]

\* /[^a-z0-9-]/gi: what the expression leaves in place
isHandleChar(char) ==
  \/ \E k \in DOMAIN LowerCase : LowerCase[k] = char \/ UpperCase[k] = char
  \/ char \in Digits
  \/ char = "-"

\* FioCreateHandleScene.tsx 71-83: the handle that is stored for userInput
handleChangeFioHandle(domain, userInput) ==
  LET cleaned == trim(replaceFirst(userInput, domain))
      undashed == SelectSeq(charAt0(cleaned), LAMBDA char : char # "-")
                    \o sliceMiddle(cleaned)
                    \o SelectSeq(sliceLast(cleaned), LAMBDA char : char # "-")
  IN toLowerCase(SelectSeq(undashed, isHandleChar))

\* state.core.account.username of the account that opened the scene
accountUserName == <<"E", "d", "1">>

\* FIO_ADDRESS_DELIMITER and the free domain
FreeDomainStr == <<"@", "e">>

\* The text of the input after an edit: what the user typed, and the domain
\* the scene displays after the handle (FioCreateHandleScene.tsx 207) unless
\* the user deleted it.
UserInputs ==
  {typed \o shown : typed \in SeqsUpTo(InputChars, MaxInput),
                    shown \in {<<>>, <<" ">> \o FreeDomainStr}}

\* The answers of the buy-address endpoint by the cleaner that accepts them
\* (asRegisterSuccessRes, asRegisterFailedRes, neither), and a fetch that
\* fails.
RegisterSuccessRes == [accepts |-> "asRegisterSuccessRes", error |-> ""]
RegisterFailedRes == [accepts |-> "asRegisterFailedRes", error |-> "Already registered"]
MalformedRes == [accepts |-> "none", error |-> ""]
FetchFailed == [accepts |-> "fetch threw", error |-> ""]
RegAddressResults == {RegisterSuccessRes, RegisterFailedRes, MalformedRes, FetchFailed}

\* sprintf(s.strings.fio_register_handle_taken_error_s, fioAccountName)
handleTakenError(fioAccountName) ==
  [text |-> "fio_register_handle_taken_error_s", arg |-> fioAccountName]

InitFio ==
  /\ loaded = {}
  /\ resolved = <<>>
  /\ EffectIdle
  /\ PrepareIdle
  /\ ClientIdle
  /\ DeepLinkIdle
  /\ LoginSceneIdle
  /\ FioIdle

\* FioCreateHandleScene.tsx 166-173: the wallet is created and the handle
\* defaults to the cleaned username.
FioWalletCreated ==
  /\ fioWallet = undefined
  /\ mounted
  /\ fioWallet' = [id |-> "fio-1"]
  /\ fioHandle' = handleChangeFioHandle(domainStr, accountUserName)
  /\ UNCHANGED <<pushVars, linkVars, sceneVars, domainStr, errorText, mounted, register,
                 buyAddressRequests, navigation>>

\* FioCreateHandleScene.tsx 175-183: the one free domain has loaded.
FioDomainLoaded ==
  /\ fioWallet # undefined
  /\ mounted
  /\ domainStr = <<>>
  /\ domainStr' = FreeDomainStr
  /\ UNCHANGED <<pushVars, linkVars, sceneVars, fioWallet, fioHandle, errorText, mounted,
                 register, buyAddressRequests, navigation>>

\* FioCreateHandleScene.tsx 71-83 and 188-191: the text changes; a changed
\* handle clears the error.
HandleChangeFioHandle(userInput) ==
  /\ mounted
  /\ fioHandle' = handleChangeFioHandle(domainStr, userInput)
  /\ errorText' = IF fioHandle' # fioHandle THEN undefined ELSE errorText
  /\ UNCHANGED <<pushVars, linkVars, sceneVars, fioWallet, domainStr, mounted, register,
                 buyAddressRequests, navigation>>

\* FioCreateHandleScene.tsx 145-149
HandleInputClear ==
  /\ mounted
  /\ fioHandle # <<>>
  /\ fioHandle' = <<>>
  /\ errorText' = undefined
  /\ UNCHANGED <<pushVars, linkVars, sceneVars, fioWallet, domainStr, mounted, register,
                 buyAddressRequests, navigation>>

\* FioCreateHandleScene.tsx 193-198: the scene is unmounted.
FioUnmount ==
  /\ mounted
  /\ mounted' = FALSE
  /\ UNCHANGED <<pushVars, linkVars, sceneVars, fioWallet, domainStr, fioHandle, errorText,
                 register, buyAddressRequests, navigation>>

\* FioCreateHandleScene.tsx 85-89 and 222-228: the register button, which is
\* disabled for a short handle, an error or no wallet, is pressed.
HandleRegisterPress ==
  /\ mounted
  /\ register.pc = "idle"
  /\ Len(fioHandle) >= 3 /\ errorText = undefined /\ fioWallet # undefined
  /\ register' = [pc |-> "validateAccount", fioAccountName |-> fioHandle \o domainStr,
                  isAvailable |-> TRUE]
  /\ UNCHANGED <<pushVars, linkVars, sceneVars, fioWallet, domainStr, fioHandle, errorText,
                 mounted, buyAddressRequests, navigation>>

\* FioCreateHandleScene.tsx 93-96: validateAccount has answered
validated(call, isAvailable, isMounted, shown) ==
  IF isAvailable THEN [pc |-> "fetch", errorText |-> shown]
  ELSE IF ~isMounted THEN [pc |-> "done", errorText |-> shown]
  ELSE [pc |-> "fetch", errorText |-> handleTakenError(call.fioAccountName)]

RegisterValidated(isAvailable) ==
  /\ register.pc = "validateAccount"
  /\ LET next == validated(register, isAvailable, mounted, errorText)
     IN /\ register' = [register EXCEPT !.pc = next.pc, !.isAvailable = isAvailable]
        /\ errorText' = next.errorText
  /\ UNCHANGED <<pushVars, linkVars, sceneVars, fioWallet, domainStr, fioHandle, mounted,
                 buyAddressRequests, navigation>>

\* FioCreateHandleScene.tsx 99-115: the registration request is sent.
RegisterRequestSent ==
  /\ register.pc = "fetch"
  /\ register' = [register EXCEPT !.pc = "response"]
  /\ buyAddressRequests' = Append(buyAddressRequests, register.fioAccountName)
  /\ UNCHANGED <<pushVars, linkVars, sceneVars, fioWallet, domainStr, fioHandle, errorText,
                 mounted, navigation>>

\* FioCreateHandleScene.tsx 117-133: the answer is checked.
RegisterResponded(regAddressRes) ==
  /\ register.pc = "response"
  /\ register' = [register EXCEPT !.pc = "done"]
  /\ IF regAddressRes = RegisterSuccessRes
     THEN /\ navigation' = Append(navigation, "pop")
          /\ UNCHANGED errorText
     ELSE /\ UNCHANGED navigation
          /\ errorText' =
               IF ~mounted THEN errorText
               ELSE IF regAddressRes = RegisterFailedRes
                 THEN [text |-> regAddressRes.error, arg |-> <<>>]
               ELSE [text |-> "fio_register_handle_error", arg |-> <<>>]
  /\ UNCHANGED <<pushVars, linkVars, sceneVars, fioWallet, domainStr, fioHandle, mounted,
                 buyAddressRequests>>

NextFio ==
  \/ FioWalletCreated
  \/ FioDomainLoaded
  \/ HandleInputClear
  \/ \E userInput \in UserInputs : HandleChangeFioHandle(userInput)
  \/ FioUnmount
  \/ HandleRegisterPress
  \/ \E isAvailable \in BOOLEAN : RegisterValidated(isAvailable)
  \/ RegisterRequestSent
  \/ \E regAddressRes \in RegAddressResults : RegisterResponded(regAddressRes)

SpecFio == InitFio /\ [][NextFio]_vars

(***************************************************************************)
(* Properties of the push server client, checked under SpecClient.         *)
(***************************************************************************)
\* C13: on a response that is not ok uploadPushEvents fails with 'Request
\* failed with <status>', whether the body is an error response or not (an
\* unparseable body is logged and neither replaces nor suppresses the error);
\* on an ok response it completes without error.
C13_UploadFailsWithStatus ==
  uploaded.state \in {"fulfilled", "rejected"} =>
    IF response.ok
    THEN uploaded = Fulfilled(undefined) /\ errorLog = <<>>
    ELSE /\ uploaded =
              Rejected(IF response.status = 500 THEN "Request failed with 500"
                       ELSE "Request failed with 400")
         /\ Len(errorLog) = 1
         /\ errorLog[1].responseBody = response.body

\* C13 witness: a 500 response with an unparseable body made the upload fail
\* with 'Request failed with 500'.
C13_Witness ==
  /\ response.status = 500
  /\ response.body = "<html>Bad Gateway"
  /\ uploaded = Rejected("Request failed with 500")
  /\ errorLog[1].responseData = NoValue

\* C14: a call of checkPushEvents or of uploadPushEvents sends exactly one
\* request; on a response that is not ok the call fails with the transport
\* error, sends no second request, and checkPushEvents returns no boolean.
C14_OneRequestNoRetry ==
  /\ requests <= 1
  /\ (isEffective.state # "idle" \/ uploaded.state # "idle") => requests = 1
  /\ (response # NoResponse /\ ~response.ok) =>
       /\ isEffective.state # "fulfilled"
       /\ uploaded.state # "fulfilled"
       /\ isEffective.state = "rejected" =>
            isEffective.error = "Request failed with " \o ToString(response.status)
       /\ uploaded.state = "rejected" =>
            uploaded.error = "Request failed with " \o ToString(response.status)

\* C14 witness: checkPushEvents has failed on a 500 response after its one
\* request.
C14_Witness ==
  /\ response.status = 500
  /\ isEffective = Rejected("Request failed with 500")
  /\ requests = 1

(***************************************************************************)
(* Properties of the trigger converter and of the call-stack id builder,   *)
(* checked under SpecEffect.                                               *)
(***************************************************************************)
\* C3: for an effect tagged address-balance, price-level or tx-confs the
\* converter never fails and resolves with a trigger, not undefined, whose
\* fields are the effect's fields: address-balance keeps tokenId, address,
\* aboveAmount and belowAmount, price-level keeps currencyPair, aboveRate and
\* belowRate, tx-confs becomes tx-confirm with the same confirmations and
\* txid = txId; for address-balance and tx-confs the wallet looked up is the
\* effect's walletId and pluginId is that wallet's plugin id.
C3_ConvertibleKeepsFields ==
  (effectArg.type \in {"address-balance", "price-level", "tx-confs"}
     /\ triggerCall.state # "idle") =>
    /\ triggerCall.state \in {"pending", "fulfilled"}
    /\ effectArg.type = "price-level" => walletLookups = <<>>
    /\ effectArg.type # "price-level" => walletLookups = <<effectArg.walletId>>
    /\ triggerCall.state = "fulfilled" =>
         LET t == triggerCall.value
         IN /\ t # undefined
            /\ effectArg.type = "address-balance" =>
                 /\ t.type = "address-balance"
                 /\ t.tokenId = effectArg.tokenId
                 /\ t.address = effectArg.address
                 /\ t.aboveAmount = effectArg.aboveAmount
                 /\ t.belowAmount = effectArg.belowAmount
                 /\ t.pluginId = PluginOf(effectArg.walletId)
                 /\ DOMAIN t = {"type", "pluginId", "tokenId", "address",
                                "aboveAmount", "belowAmount"}
            /\ effectArg.type = "price-level" =>
                 /\ t.type = "price-level"
                 /\ t.currencyPair = effectArg.currencyPair
                 /\ t.aboveRate = effectArg.aboveRate
                 /\ t.belowRate = effectArg.belowRate
                 /\ DOMAIN t = {"type", "currencyPair", "aboveRate", "belowRate"}
            /\ effectArg.type = "tx-confs" =>
                 /\ t.type = "tx-confirm"
                 /\ t.confirmations = effectArg.confirmations
                 /\ t.txid = effectArg.txId
                 /\ t.pluginId = PluginOf(effectArg.walletId)
                 /\ DOMAIN t = {"type", "pluginId", "confirmations", "txid"}

\* C3 witness: an address-balance effect with one threshold set and the other
\* absent has been converted, on the wallet of the second plugin.
C3_Witness ==
  /\ effectArg.type = "address-balance"
  /\ effectArg.aboveAmount # NoValue
  /\ effectArg.belowAmount = NoValue
  /\ effectArg.walletId = "w2"
  /\ triggerCall.state = "fulfilled"
  /\ triggerCall.value.aboveAmount = "100"

\* C4: for an effect tagged done, noop, par, push-events or unixtime the
\* converter resolves with undefined: it raises no error and looks up no
\* wallet, whatever the children of a par are, null children included.
C4_NotConvertibleIsNone ==
  (effectArg.type \in {"done", "noop", "par", "push-events", "unixtime"}
     /\ triggerCall.state # "idle") =>
    /\ triggerCall = Fulfilled(undefined)
    /\ walletLookups = <<>>

\* C4 witness: a par with a null child has been converted.
C4_Witness ==
  /\ effectArg.type = "par"
  /\ \E i \in DOMAIN effectArg.childEffects : effectArg.childEffects[i] = null
  /\ triggerCall.state = "fulfilled"

\* The children of a par effect, none of them null at any depth under pars,
\* so that each child has a call-stack id.
ChildrenHaveIds(effect) ==
  \A i \in DOMAIN effect.childEffects :
    /\ effect.childEffects[i] # null
    /\ ~getCallStackId(effect.childEffects[i]).threw

\* C6 as stated: getCallStackId is deterministic, and for any two different
\* child effects A and B the id of par[A,B] differs from the id of par[B,A].
C6_ParOrderAnyChildren ==
  (callStackIdCall.state = "returned" /\ effectArg.type = "par"
     /\ Len(effectArg.childEffects) = 2
     /\ effectArg.childEffects[1] # effectArg.childEffects[2]) =>
    LET A == effectArg.childEffects[1]
        B == effectArg.childEffects[2]
    IN /\ callStackIdCall.value = getCallStackId(Par(<<A, B>>)).value
       /\ callStackIdCall.value # getCallStackId(Par(<<B, A>>)).value

\* C6 amended: getCallStackId is deterministic, and for any two child effects
\* A and B that are not pars and whose own ids differ, the id of par[A,B]
\* differs from the id of par[B,A].
C6_ParOrderDistinctIds ==
  (callStackIdCall.state = "returned" /\ effectArg.type = "par"
     /\ Len(effectArg.childEffects) = 2
     /\ ChildrenHaveIds(effectArg)
     /\ effectArg.childEffects[1].type # "par"
     /\ effectArg.childEffects[2].type # "par"
     /\ getCallStackId(effectArg.childEffects[1]) # getCallStackId(effectArg.childEffects[2])) =>
    LET A == effectArg.childEffects[1]
        B == effectArg.childEffects[2]
    IN /\ callStackIdCall.value = getCallStackId(Par(<<A, B>>)).value
       /\ callStackIdCall.value # getCallStackId(Par(<<B, A>>)).value

\* C6 witness: the id of a par of a seq and a tx-confs has been built.
C6_Witness ==
  /\ effectArg.type = "par"
  /\ Len(effectArg.childEffects) = 2
  /\ effectArg.childEffects[1].type = "seq"
  /\ effectArg.childEffects[2].type = "tx-confs"
  /\ callStackIdCall.state = "returned"

\* C7: getCallStackId returns "seq_<opIndex>" for a seq, whatever its
\* childEffect, null included; for a par none of whose children is null (at
\* any depth under pars) it returns "par_" followed by the ids of the children
\* in source order, separated by "_"; for any other variant it returns the
\* tag.
C7_CallStackIdShape ==
  callStackIdCall.state # "idle" =>
    /\ effectArg.type = "seq" =>
         callStackIdCall = Returned("seq_" \o ToString(effectArg.opIndex))
    /\ (effectArg.type = "par" /\ ChildrenHaveIds(effectArg)) =>
         LET ids == [i \in DOMAIN effectArg.childEffects |->
                       getCallStackId(effectArg.childEffects[i]).value]
             RECURSIVE upTo(_)
             upTo(k) == IF k = 0 THEN ""
                        ELSE IF k = 1 THEN ids[1]
                        ELSE upTo(k - 1) \o "_" \o ids[k]
         IN callStackIdCall = Returned("par_" \o upTo(Len(ids)))
    /\ effectArg.type \notin {"seq", "par"} =>
         callStackIdCall = Returned(effectArg.type)

\* C7 witness: the id "par_tx-confs_seq_1" has been built from a par of a
\* tx-confs and a seq.
C7_Witness ==
  /\ effectArg.type = "par"
  /\ Len(effectArg.childEffects) = 2
  /\ effectArg.childEffects[1].type = "tx-confs"
  /\ effectArg.childEffects[2].type = "seq"
  /\ callStackIdCall = Returned("par_tx-confs_seq_" \o ToString(MaxOpIndex))

\* C11: for a seq effect the converter settles exactly as it does for the
\* seq's childEffect (the same trigger or undefined, the same error, the same
\* wallet lookup), and it fails with the 'Unexpected null effect' error when
\* the childEffect is null.
C11_SeqConvertsChild ==
  (effectArg.type = "seq" /\ triggerCall.state # "idle") =>
    IF effectArg.childEffect = null
    THEN triggerCall = Rejected(NULL_EFFECT_TRIGGER) /\ walletLookups = <<>>
    ELSE LET child == actionEffectToPushTrigger(account, effectArg.childEffect)
         IN /\ walletLookups = child.lookups
            /\ triggerCall.state = "fulfilled" =>
                 ~child.threw /\ triggerCall.value = child.value
            /\ triggerCall.state = "rejected" =>
                 child.threw /\ triggerCall.error = child.error
            /\ triggerCall.state = "pending" => child.lookups # <<>>
            /\ effectArg.childEffect.type \in {"done", "noop", "push-events", "unixtime"} =>
                 triggerCall = Fulfilled(undefined)
            /\ (effectArg.childEffect.type = "seq" /\ effectArg.childEffect.childEffect = null) =>
                 triggerCall = Rejected(NULL_EFFECT_TRIGGER)

\* C11 witness: a seq of a seq of a null child has been converted and the
\* call was rejected.
C11_Witness ==
  /\ effectArg.type = "seq"
  /\ effectArg.childEffect.type = "seq"
  /\ effectArg.childEffect.childEffect = null
  /\ triggerCall.state = "rejected"

\* C15 as stated: effectCanBeATrigger returns a boolean for every effect,
\* true if and only if the converter yields a trigger and false, without
\* failing, whenever the conversion does not succeed.
C15_CanTriggerIffConverts ==
  canTriggerCall.state \in {"fulfilled", "rejected"} =>
    LET settled == actionEffectToPushTrigger(account, effectArg)
    IN /\ canTriggerCall.state = "fulfilled"
       /\ canTriggerCall.value <=> (~settled.threw /\ settled.value # undefined)

\* C15 amended: effectCanBeATrigger returns true if and only if the converter
\* yields a trigger and false when it yields undefined; when the converter
\* itself fails (a seq that ends in a null child, an unknown tag) the call
\* fails with the converter's error instead of returning false.  A conversion
\* of an effect for which it returned true neither fails nor yields undefined,
\* so prepareNewPushEvents does not raise on such a prevEffect.
C15_CanTriggerOrFails ==
  LET settled == actionEffectToPushTrigger(account, effectArg)
  IN /\ canTriggerCall.state = "fulfilled" =>
          /\ ~settled.threw
          /\ canTriggerCall.value <=> settled.value # undefined
     /\ canTriggerCall.state = "rejected" =>
          settled.threw /\ canTriggerCall.error = settled.error
     /\ (canTriggerCall = Fulfilled(TRUE) /\ triggerCall.state \notin {"idle", "pending"}) =>
          /\ triggerCall.state = "fulfilled"
          /\ triggerCall.value # undefined
          /\ UnsupportedEffect(effectArg) # ""

\* C15 witness: effectCanBeATrigger returned false for an effect the
\* converter turns into undefined and that waits for no wallet.
C15_Witness ==
  /\ effectArg.type = "seq"
  /\ effectArg.childEffect # null
  /\ effectArg.childEffect.type = "done"
  /\ canTriggerCall = Fulfilled(FALSE)
  /\ triggerCall = Fulfilled(undefined)

KnownTags ==
  {"seq", "par", "address-balance", "price-level", "tx-confs", "done", "noop",
   "push-events", "unixtime"}

\* C16 as stated: for an effect whose tag is none of the known variants both
\* actionEffectToPushTrigger and getCallStackId fail instead of returning a
\* result.
C16_UnknownTagFailsBoth ==
  effectArg.type \notin KnownTags =>
    /\ triggerCall.state # "idle" => triggerCall.state = "rejected"
    /\ callStackIdCall.state # "idle" => callStackIdCall.state = "thrown"

(***************************************************************************)
(* Properties of prepareNewPushEvents, checked under SpecPrepare.          *)
(***************************************************************************)
\* What the converter resolves with for the prevEffect of the step at index.
TriggerOfPrev(index) ==
  actionEffectToPushTrigger(account,
    IF index = 0 THEN initEffect ELSE dryrunOutputs[index].effect)

\* C1: in the returned array the trigger of events[i] is the converter's
\* result for initEffect when i = 0 and for dryrunOutputs[i-1].effect when
\* i > 0; the effect of the output itself, and so of the last output, is not
\* a trigger source.
C1_TriggerFromPrevEffect ==
  pushEvents.state = "fulfilled" =>
    \A i \in Indexes(dryrunOutputs) :
      /\ ~TriggerOfPrev(i).threw
      /\ At(pushEvents.value, i).trigger = TriggerOfPrev(i).value

\* C1 witness: two events were returned, the second triggered by the first
\* output's tx-confs effect, although the last output's own effect (done)
\* converts to no trigger at all.
C1_Witness ==
  /\ pushEvents.state = "fulfilled"
  /\ Len(dryrunOutputs) = 2
  /\ initEffect.type = "address-balance"
  /\ dryrunOutputs[1].effect.type = "tx-confs"
  /\ dryrunOutputs[2].effect.type = "done"
  /\ pushEvents.value[1].trigger.type = "address-balance"
  /\ pushEvents.value[2].trigger.type = "tx-confirm"

\* C2: in the returned array the event at the last index carries the
\* pushMessage and every earlier event has pushMessage undefined.
C2_PushMessageOnLastOnly ==
  pushEvents.state = "fulfilled" =>
    \A i \in 1..Len(pushEvents.value) :
      /\ i = Len(pushEvents.value) => pushEvents.value[i].pushMessage = pushMessage
      /\ i < Len(pushEvents.value) => pushEvents.value[i].pushMessage = undefined

\* C2 witness: a batch of two events was returned.
C2_Witness ==
  /\ pushEvents.state = "fulfilled"
  /\ Len(pushEvents.value) = 2
  /\ pushEvents.value[2].pushMessage.title = "action_queue_push_notification_title"

\* The steps whose prevEffect the converter turns into no trigger.
NoTriggerSteps ==
  {i \in Indexes(dryrunOutputs) :
     ~TriggerOfPrev(i).threw /\ TriggerOfPrev(i).value = undefined}

\* C8 as stated: when the converter yields none for the prevEffect of some
\* step, the call, once settled, has failed with the 'Unsupported effect
\* type' error naming that prevEffect's type, and has returned no events.
C8_FailsWithUnsupported ==
  (NoTriggerSteps # {} /\ pushEvents.state \in {"fulfilled", "rejected"}) =>
    /\ pushEvents.state = "rejected"
    /\ \E i \in NoTriggerSteps :
         pushEvents.error = UnsupportedEffect(prevEffectOf(dryrunOutputs, initEffect, i))

\* C8 amended: when the converter yields none for the prevEffect of some
\* step, the call never returns an event array; when it fails, the error is
\* 'Unsupported effect type' naming the type of such a prevEffect, unless an
\* 'Unexpected null effect' error is raised first, by getCallStackId on an
\* output effect with a null par child or by the converter on a prevEffect
\* that is a seq of a null child.
C8_AllOrNothing ==
  NoTriggerSteps # {} =>
    /\ pushEvents.state # "fulfilled"
    /\ pushEvents.state = "rejected" =>
         \/ \E i \in NoTriggerSteps :
              pushEvents.error = UnsupportedEffect(prevEffectOf(dryrunOutputs, initEffect, i))
         \/ /\ pushEvents.error = NULL_EFFECT_CALLSTACK
            /\ \E i \in DOMAIN dryrunOutputs : getCallStackId(dryrunOutputs[i].effect).threw
         \/ /\ pushEvents.error = NULL_EFFECT_TRIGGER
            /\ \E i \in Indexes(dryrunOutputs) : TriggerOfPrev(i).threw

\* C8 witness: the call failed with 'Unsupported effect type done' although
\* the event of another step had been built.
C8_Witness ==
  /\ pushEvents = Rejected("Unsupported effect type done in conversion to PushTrigger")
  /\ \E i \in DOMAIN steps : steps[i].pc = "fulfilled"

\* C9: a returned array has one event per dry-run output, and events[i] is
\* the event of dryrunOutputs[i] (its id, its transactions, its trigger),
\* whatever the order in which the steps' wallet lookups completed.
C9_OrderPreserved ==
  pushEvents.state = "fulfilled" =>
    /\ Len(pushEvents.value) = Len(dryrunOutputs)
    /\ \A i \in Indexes(dryrunOutputs) :
         LET event == At(pushEvents.value, i)
             output == At(dryrunOutputs, i)
         IN /\ event = At(steps, i).event
            /\ event.eventId = program.programId \o ":" \o getCallStackId(output.effect).value
            /\ Len(event.broadcastTxs) = Len(output.broadcastTxs)
            /\ \A k \in DOMAIN output.broadcastTxs :
                 event.broadcastTxs[k].pluginId = PluginOf(output.broadcastTxs[k].walletId)
            /\ event.trigger = TriggerOfPrev(i).value

\* C9 witness: two different events were returned in input order after the
\* second step completed before the first.
C9_Witness ==
  /\ pushEvents.state = "fulfilled"
  /\ completed = <<1, 0>>
  /\ pushEvents.value[1] # pushEvents.value[2]
  /\ pushEvents.value[1].eventId # pushEvents.value[2].eventId

\* C10: every event a step has built has eventId "<programId>:<callStackId>"
\* where callStackId is getCallStackId of the step's own output.effect.
C10_EventIdOfOwnEffect ==
  \A i \in Indexes(steps) :
    At(steps, i).pc \in {"broadcastTxs", "trigger", "fulfilled"} =>
      LET callStackId == getCallStackId(At(dryrunOutputs, i).effect)
      IN /\ ~callStackId.threw
         /\ At(steps, i).eventId = program.programId \o ":" \o callStackId.value
         /\ At(steps, i).pc = "fulfilled" =>
              At(steps, i).event.eventId = program.programId \o ":" \o callStackId.value

\* C10 witness: initEffect tx-confs and a single output whose effect is done
\* gave one event with eventId "swap-1:done" and a tx-confirm trigger.
C10_Witness ==
  /\ initEffect = TxConfs("w1", "t1")
  /\ Len(dryrunOutputs) = 1
  /\ dryrunOutputs[1].effect = Done
  /\ Len(dryrunOutputs[1].broadcastTxs) = 1
  /\ pushEvents.state = "fulfilled"
  /\ pushEvents.value[1].eventId = "swap-1:done"
  /\ pushEvents.value[1].trigger =
       [type |-> "tx-confirm", pluginId |-> "bitcoin", confirmations |-> 1, txid |-> "t1"]
  /\ pushEvents.value[1].pushMessage = pushMessage

\* The hex encoding of the signed transactions of ExecutionTxs.
SignedTxHex == (<<171>> :> "ab") @@ (<<1, 35>> :> "0123")

\* The entries an event is to carry for the transactions of an output.
EntriesMatch(entries, txs) ==
  /\ Len(entries) = Len(txs)
  /\ \A i \in DOMAIN txs :
       /\ DOMAIN entries[i] = {"pluginId", "rawTx"}
       /\ entries[i].pluginId = PluginOf(txs[i].walletId)
       /\ entries[i].rawTx = SignedTxHex[txs[i].tx.signedTx]

\* C17: the broadcastTxs of every step's event has exactly one
\* {pluginId, rawTx} entry for each transaction of output.broadcastTxs, in
\* the original order whatever the order in which the wallets loaded, with
\* the plugin id of the transaction's wallet and the hex encoding of its
\* signed transaction.
C17_BroadcastTxsInOrder ==
  /\ \A index \in Indexes(steps) :
       At(steps, index).pc \in {"trigger", "fulfilled"} =>
         EntriesMatch(At(steps, index).broadcastTxs, At(dryrunOutputs, index).broadcastTxs)
  /\ pushEvents.state = "fulfilled" =>
       \A index \in Indexes(dryrunOutputs) :
         EntriesMatch(At(pushEvents.value, index).broadcastTxs,
                      At(dryrunOutputs, index).broadcastTxs)

\* C17 witness: the events are returned for an output whose first
\* transaction is of the wallet that loaded last.
C17_Witness ==
  /\ pushEvents.state = "fulfilled"
  /\ Len(dryrunOutputs) = 1
  /\ Len(dryrunOutputs[1].broadcastTxs) = 2
  /\ dryrunOutputs[1].broadcastTxs[1].walletId = "w2"
  /\ dryrunOutputs[1].broadcastTxs[2].walletId = "w1"
  /\ resolved = <<"w1", "w2">>
  /\ Len(pushEvents.value[1].broadcastTxs) = 2

RECURSIVE HasNullParChild(_)
\* The effect is a par with a null child, at any position and at any depth
\* under par nodes.
HasNullParChild(effect) ==
  /\ effect.type = "par"
  /\ \E i \in DOMAIN effect.childEffects :
       \/ effect.childEffects[i] = null
       \/ HasNullParChild(effect.childEffects[i])

\* C12: when the own effect of some dry-run output is a par with a null child
\* at any position and depth under par nodes, the callback of that output is
\* rejected and prepareNewPushEvents fails with the 'Unexpected null effect'
\* error of getCallStackId, returning no events, also when every prevEffect is
\* convertible.
C12_NullParChildFails ==
  (pushEvents.state # "idle"
     /\ \E i \in DOMAIN dryrunOutputs : HasNullParChild(dryrunOutputs[i].effect)) =>
    /\ pushEvents = Rejected(NULL_EFFECT_CALLSTACK)
    /\ \A i \in DOMAIN dryrunOutputs :
         HasNullParChild(dryrunOutputs[i].effect) =>
           steps[i] = StepRejected(NULL_EFFECT_CALLSTACK)

\* C12 witness: every prevEffect is convertible, the last output's own effect
\* holds a null child in second position of a nested par, and the call has
\* failed.
C12_Witness ==
  /\ Len(dryrunOutputs) = 2
  /\ dryrunOutputs[2].effect = Par(<<Noop, Par(<<Done, null>>)>>)
  /\ \A i \in Indexes(dryrunOutputs) :
       ~TriggerOfPrev(i).threw /\ TriggerOfPrev(i).value # undefined
  /\ pushEvents.state = "rejected"
  /\ steps[1].pc = "fulfilled"

(***************************************************************************)
(* Properties of checkPushEvents, checked under SpecClient.                *)
(***************************************************************************)
\* The entries of the response for an event id, and the one that counts:
\* an id listed more than once has the state of its last entry.
EntriesOf(eventId) == {k \in DOMAIN response.events : response.events[k].eventId = eventId}
LastEntryOf(eventId) == CHOOSE k \in EntriesOf(eventId) : \A j \in EntriesOf(eventId) : j <= k

\* C5: on a successful response checkPushEvents returns a boolean; it returns
\* true only if every requested eventId appears in the response's events with
\* state triggered or complete, and false if any requested id is missing from
\* the response or has any other state.
C5_CheckFailsClosed ==
  (response.ok /\ isEffective.state \in {"fulfilled", "rejected"}) =>
    /\ isEffective.state = "fulfilled"
    /\ isEffective.value \in BOOLEAN
    /\ isEffective.value =>
         \A i \in DOMAIN eventIds :
           \E k \in EntriesOf(eventIds[i]) :
             response.events[k].state \in {"triggered", "complete"}
    /\ (\E i \in DOMAIN eventIds :
          \/ EntriesOf(eventIds[i]) = {}
          \/ response.events[LastEntryOf(eventIds[i])].state \notin {"triggered", "complete"})
         => ~isEffective.value

\* C5 witness: two ids were requested, the first is complete in the
\* response, the second is missing from it, and false was returned.
C5_Witness ==
  /\ Len(eventIds) = 2
  /\ response.ok
  /\ \E k \in EntriesOf(eventIds[1]) : response.events[k].state = "complete"
  /\ EntriesOf(eventIds[2]) = {}
  /\ isEffective = Fulfilled(FALSE)

(***************************************************************************)
(* Properties of the deep link actions, checked under SpecDeepLink.        *)
(***************************************************************************)
\* C18: launchDeepLink dispatches DEEP_LINK_RECEIVED, carrying the link, if
\* and only if handleLink reports the link as not handled in the current
\* state, and dispatches nothing itself otherwise: a link it followed is not
\* stored as the pending link by that call.
C18_SavedIffNotHandled ==
  [][\A link \in DeepLinks :
       LaunchDeepLink(link) =>
         LET handled == handleLink(getState, link).handled
         IN /\ lastCall'.handled = handled
            /\ lastCall'.actions = IF handled THEN <<>> ELSE <<DEEP_LINK_RECEIVED(link)>>
            /\ handled => pendingDeepLink' = pendingDeepLink
            /\ ~handled => pendingDeepLink' = link]_vars

\* C18 witness: a swap link was saved because it could not be followed, and
\* an edgeLogin link that arrived later was followed and dispatched nothing.
C18_Witness ==
  /\ lastCall.op = "launchDeepLink"
  /\ lastCall.link.type = "edgeLogin"
  /\ lastCall.handled
  /\ lastCall.actions = <<>>
  /\ pendingDeepLink # null
  /\ pendingDeepLink.type = "swap"

\* C19: retryPendingDeepLink does nothing when no deep link is pending; when
\* one is pending it calls handleLink on it and dispatches DEEP_LINK_HANDLED
\* if and only if handleLink handles it in the current state, and otherwise
\* dispatches nothing and leaves the pending link as it was.
C19_RetryClearsIffHandled ==
  [][RetryPendingDeepLink =>
       IF pendingDeepLink = null
       THEN /\ ~lastCall'.called
            /\ lastCall'.effects = <<>>
            /\ lastCall'.actions = <<>>
            /\ pendingDeepLink' = null
       ELSE LET result == handleLink(getState, pendingDeepLink)
            IN /\ lastCall'.called
               /\ lastCall'.link = pendingDeepLink
               /\ lastCall'.handled = result.handled
               /\ lastCall'.actions = IF result.handled THEN <<DEEP_LINK_HANDLED>> ELSE <<>>
               /\ ~result.handled => pendingDeepLink' = pendingDeepLink]_vars

\* C19 witness: a swap link, which is pending only because an earlier call
\* could not handle it, is handled by a retry after the wallet list changed.
C19_Witness ==
  /\ lastCall.op = "retryPendingDeepLink"
  /\ lastCall.called
  /\ lastCall.link.type = "swap"
  /\ lastCall.handled
  /\ lastCall.actions = <<DEEP_LINK_HANDLED>>
  /\ byId # {}

\* The account is not ready for deep links.
NotReady ==
  \/ Cardinality(activeWalletIds) # Cardinality(currencyWallets)
  \/ username = NoValue

\* C20: while the number of active wallet ids differs from the number of
\* loaded currency wallets, or the account has no username, handleLink returns
\* false for a link of any type and performs no dispatch, navigation or error
\* display.
C20_NotReadyNeverHandles ==
  [][(/\ NotReady
      /\ lastCall'.called
      /\ LaunchDeepLink(lastCall'.link) \/ RetryPendingDeepLink) =>
       /\ ~lastCall'.handled
       /\ lastCall'.effects = <<>>]_vars

\* C20 witness: an edgeLogin link, which needs nothing but the account, is
\* not handled while a wallet of the account is still loading.
C20_Witness ==
  /\ lastCall.called
  /\ lastCall.link.type = "edgeLogin"
  /\ ~lastCall.handled
  /\ lastCall.effects = <<>>
  /\ username # NoValue
  /\ Cardinality(activeWalletIds) # Cardinality(currencyWallets)

\* C21: whenever handleLink returns false it has performed no navigation
\* push, no dispatch and no error display, an azteco link whose selected
\* wallet is not a BTC wallet included.
C21_NotHandledNoEffects ==
  (lastCall.called /\ ~lastCall.handled) => lastCall.effects = <<>>

\* The pending link is a passwordRecovery link.
RecoveryPending == pendingDeepLink # null /\ pendingDeepLink.type = "passwordRecovery"

\* C22: handleLink never handles a passwordRecovery link, so launchDeepLink
\* stores it as pending and retryPendingDeepLink leaves it pending; a pending
\* passwordRecovery link is cleared only by the login scene's effect, which
\* passes the recovery key to the login UI and dispatches DEEP_LINK_HANDLED,
\* after logoutRequest when an account is logged in.
C22_RecoveryClearedByLoginScene ==
  [][/\ \A link \in DeepLinks :
          (link.type = "passwordRecovery" /\ LaunchDeepLink(link)) =>
            /\ ~lastCall'.handled
            /\ lastCall'.effects = <<>>
            /\ pendingDeepLink' = link
     /\ (RecoveryPending /\ RetryPendingDeepLink) =>
          /\ ~lastCall'.handled
          /\ lastCall'.actions = <<>>
          /\ pendingDeepLink' = pendingDeepLink
     /\ (RecoveryPending /\ pendingDeepLink' = null) =>
          /\ loginScene'.counter = loginScene.counter + 1
          /\ recoveryLogin' = pendingDeepLink.passwordRecoveryKey
          /\ loginScene'.dispatched =
               IF loggedIn THEN <<logoutRequest, DEEP_LINK_HANDLED>>
               ELSE <<DEEP_LINK_HANDLED>>
     /\ (RecoveryPending /\ LoginSceneEffect) => pendingDeepLink' = null]_vars

\* C22 witness: with an account logged in and its wallets loaded, a
\* passwordRecovery link was retried, and then cleared by the login scene
\* after a logout request.
C22_Witness ==
  /\ lastCall.op = "retryPendingDeepLink"
  /\ lastCall.link.type = "passwordRecovery"
  /\ ~NotReady
  /\ loggedIn
  /\ pendingDeepLink = null
  /\ recoveryLogin = "key-1"
  /\ loginScene.dispatched = <<logoutRequest, DEEP_LINK_HANDLED>>

(***************************************************************************)
(* Properties of the FIO handle scene, checked under SpecFio.              *)
(***************************************************************************)
\* C23: after handleChangeFioHandle has processed any user input the stored
\* handle consists only of a-z, 0-9 and '-', and neither its first nor its
\* last character is '-'.
C23_HandleIsClean ==
  /\ \A i \in DOMAIN fioHandle :
       \/ \E k \in DOMAIN LowerCase : LowerCase[k] = fioHandle[i]
       \/ fioHandle[i] \in Digits
       \/ fioHandle[i] = "-"
  /\ Len(fioHandle) > 0 => (fioHandle[1] # "-" /\ fioHandle[Len(fioHandle)] # "-")

\* C24: when validateAccount reports that the handle is not available (and
\* the 'handle taken' error is shown), no registration request is sent to the
\* buy-address endpoint: a request is sent only for a handle that passed the
\* check.
C24_TakenHandleNotRegistered ==
  /\ (register.pc # "idle" /\ ~register.isAvailable) => buyAddressRequests = <<>>
  /\ buyAddressRequests # <<>> => register.isAvailable

(***************************************************************************)
(* Progress of prepareNewPushEvents, checked under SpecCompletion.         *)
(***************************************************************************)
\* No output's own effect has a null par child and every prevEffect converts
\* to a trigger.
AllConvertible ==
  /\ \A i \in DOMAIN dryrunOutputs : ~getCallStackId(dryrunOutputs[i].effect).threw
  /\ \A index \in Indexes(dryrunOutputs) :
       ~TriggerOfPrev(index).threw /\ TriggerOfPrev(index).value # undefined

\* The wallets of the transactions of the output at index have all loaded.
BroadcastWalletsLoaded(index) ==
  \A i \in DOMAIN At(dryrunOutputs, index).broadcastTxs :
    At(dryrunOutputs, index).broadcastTxs[i].walletId \in loaded

\* C25: when every wallet lookup resolves in the end, no output effect has a
\* null par child and every prevEffect is convertible, a call of
\* prepareNewPushEvents completes in the end with one event for each output;
\* and in every step the conversion of prevEffect starts, and so an
\* 'Unsupported effect type' error arises, only after the wallets of all of
\* the step's broadcast transactions have loaded.
C25_CompletesAfterLookups ==
  /\ [](\A index \in Indexes(steps) :
          (\/ At(steps, index).pc \in {"trigger", "fulfilled"}
           \/ /\ At(steps, index).pc = "rejected"
              /\ At(steps, index).error =
                   UnsupportedEffect(prevEffectOf(dryrunOutputs, initEffect, index)))
            => BroadcastWalletsLoaded(index))
  /\ (pushEvents.state # "idle" /\ AllConvertible) ~>
       (pushEvents.state = "fulfilled" /\ Len(pushEvents.value) = Len(dryrunOutputs))

\* C25 witness: the call has completed with the events of two outputs that
\* broadcast transactions of different wallets.
C25_Witness ==
  /\ pushEvents.state = "fulfilled"
  /\ Len(dryrunOutputs) = 2
  /\ Len(pushEvents.value) = 2
  /\ Len(dryrunOutputs[1].broadcastTxs) = 1
  /\ Len(dryrunOutputs[2].broadcastTxs) = 1
  /\ dryrunOutputs[1].broadcastTxs[1].walletId # dryrunOutputs[2].broadcastTxs[1].walletId

(***************************************************************************)
(* What the call-stack id reads, checked under SpecCompletion.             *)
(***************************************************************************)
RECURSIVE Shape(_)
\* What the claim lets an id depend on: the tag, the opIndex of a seq and the
\* children of a par, in order.
Shape(effect) ==
  IF effect.type = "seq" THEN [type |-> "seq", opIndex |-> effect.opIndex]
  ELSE IF effect.type = "par"
    THEN [type |-> "par",
          childEffects |-> [i \in DOMAIN effect.childEffects |->
                              Shape(effect.childEffects[i])]]
  ELSE [type |-> effect.type]

\* The effects that differ from effect in other fields only: a seq's
\* childEffect, a leaf's walletId, address, txId and thresholds.
OtherFieldsChanged(effect) ==
  IF effect.type = "seq"
  THEN {[effect EXCEPT !.childEffect = child] : child \in LeafEffects \cup {null}}
  ELSE {other \in LeafEffects : other.type = effect.type}

\* C26: getCallStackId reads only the tag, the opIndex of a seq and the
\* ordered children of a par: an effect that differs in other fields only
\* has the same id, and two steps of one program whose own effects differ in
\* such fields only receive the same eventId.
C26_SameShapeSameEventId ==
  \A i \in Indexes(steps) :
    At(steps, i).pc # "rejected" =>
      /\ \A j \in Indexes(steps) :
           (/\ At(steps, j).pc # "rejected"
            /\ Shape(At(dryrunOutputs, i).effect) = Shape(At(dryrunOutputs, j).effect)) =>
             At(steps, i).eventId = At(steps, j).eventId
      /\ \A other \in OtherFieldsChanged(At(dryrunOutputs, i).effect) :
           /\ Shape(other) = Shape(At(dryrunOutputs, i).effect)
           /\ ~getCallStackId(other).threw
           /\ eventIdOf(program.programId, getCallStackId(other).value) = At(steps, i).eventId

\* C26 witness: two steps whose tx-confs effects differ in walletId and txId
\* have the same event id.
C26_Witness ==
  /\ Len(steps) = 2
  /\ dryrunOutputs[1].effect = TxConfs("w1", "t1")
  /\ dryrunOutputs[2].effect = TxConfs("w2", "t2")
  /\ steps[1].pc = "fulfilled"
  /\ steps[2].pc = "fulfilled"
  /\ steps[1].eventId = steps[2].eventId
  /\ steps[1].eventId = "swap-1:tx-confs"

====
